---- MODULE Spec2Model ----
(***************************************************************************)
(* LibraBFT-v2 simulator: record store, pacemaker, node and data-sync      *)
(* handlers of src/librabft-v2, run against the simulated SMR context of   *)
(* src/bft-lib.                                                            *)
(*                                                                         *)
(* Modelling conventions.                                                  *)
(*  - Option<T>: None is <<>>, Some(x) is <<x>>.                           *)
(*  - A hash is a word computed from the words that the hashed value       *)
(*    writes to its hasher (Digest stands for DefaultHasher).              *)
(*  - A State is the key of a simulated ledger: the hash of its history.   *)
(*  - A Signature is <<author, hash>>, as Signature(usize, u64).           *)
(*  - A panic of the Rust code stops the replica: crashed[n] becomes TRUE. *)
(***************************************************************************)
EXTENDS Integers, Sequences, FiniteSets, TLC

VARIABLES
    nodes,       \* replica -> NodeState
    contexts,    \* replica -> SimulatedContext
    clock,       \* replica -> latest NodeTime handed to the replica
    crashed,     \* replica -> TRUE once a handler has panicked
    leaders,     \* Round -> Author: outcome of pick_author(hash(round))
    delivered,   \* replica -> sequence of the calls made to context.commit
    votes_cast,  \* replica -> set of the votes signed by the replica
    byzantine,   \* authors whose signatures the network adversary can produce
    network,     \* what the network does in this behaviour, and how far it goes:
                 \* [rounds, clock, gaps, faults, epochs, sync]
    simulator,   \* Simulator: [clock, pending_events, startup_time,
                 \* ignore_scheduled_updates_until]
    driver,      \* CoreDriver: [crate, pc, storage, actions, sent]
    call         \* a function called on its own: [input, function, output]

vars == <<nodes, contexts, clock, crashed, leaders, delivered, votes_cast, byzantine,
         network, simulator, driver, call>>

\* The variables of the replicas and of what runs them.
program == <<nodes, contexts, clock, crashed, leaders, delivered, votes_cast, byzantine,
            network, simulator, driver>>

(***************************************************************************)
(* Bounds of the model.                                                    *)
(***************************************************************************)
MaxRound == 4
MaxClock == 1
MaxBlocks == 4
MaxEpoch == 1
MaxCommandPerEpoch == 2
UsizeBits == 7

Max(a, b) == IF a >= b THEN a ELSE b
Min(a, b) == IF a <= b THEN a ELSE b

None == <<>>
Some(x) == <<x>>
IsSome(o) == o # <<>>
Unwrap(o) == o[1]

Never == MaxClock + 1000

(***************************************************************************)
(* bft-lib: EpochConfiguration.                                            *)
(***************************************************************************)
EpochConfigurationNew(voting_rights) ==
    [voting_rights |-> voting_rights,
     total_votes |-> LET RECURSIVE Sum(_)
                         Sum(S) == IF S = {} THEN 0
                                   ELSE LET a == CHOOSE x \in S : TRUE
                                        IN voting_rights[a] + Sum(S \ {a})
                     IN Sum(DOMAIN voting_rights)]

weight(configuration, author) ==
    IF author \in DOMAIN configuration.voting_rights
    THEN configuration.voting_rights[author] ELSE 0

\* The arithmetic of usize in a release build, on words of UsizeBits bits.
Usize(x) == x % (2 ^ UsizeBits)

\* quorum_threshold without the vote above two thirds.
QuorumThresholdOfTwoThirds(configuration) ==
    Usize(2 * configuration.total_votes) \div 3

quorum_threshold(configuration) ==
    Usize(Usize(2 * configuration.total_votes) \div 3 + 1)

validity_threshold(configuration) == Usize(configuration.total_votes + 2) \div 3

\* A debug build panics where the arithmetic of usize overflows.
quorum_threshold_panics(configuration) == 2 * configuration.total_votes >= 2 ^ UsizeBits

validity_threshold_panics(configuration) == configuration.total_votes + 2 >= 2 ^ UsizeBits

(***************************************************************************)
(* bft-lib: SimulatedContext.                                              *)
(***************************************************************************)
\* Hasher::write of one word: a hasher state packs two digests, each
\* modulo a prime.
Mix(h, word) ==
    (((h \div 46327) * 31337 + (word % 46337) + 1) % 46337) * 46327
    + (((h % 46327) * 27449 + (word % 46327) + 1) % 46327)

\* Hash of an Option<word>.
MixOption(h, o) == IF o = None THEN Mix(h, 0) ELSE Mix(Mix(h, 1), Unwrap(o))

\* SimulatedLedgerState: the execution history, <<command, time>> pairs.
SimulatedLedgerStateNew == <<>>

\* SimulatedLedgerState::key of the first i entries of a history.
RECURSIVE KeyOf(_, _)
KeyOf(history, i) ==
    IF i = 0 THEN 6
    ELSE Mix(Mix(Mix(KeyOf(history, i - 1), history[i][1].proposer),
                 history[i][1].index), history[i][2])

\* SimulatedLedgerState::key
key(history) == KeyOf(history, Len(history))

\* SimulatedLedgerState::execute
execute(history, command, time) == Append(history, <<command, time>>)

happened_just_before(history, other) ==
    /\ Len(history) + 1 = Len(other)
    /\ \A i \in 1..Len(history) : history[i] = other[i]

SimulatedContextNew(author, num_nodes, max_command_per_epoch) ==
    [author |-> author,
     num_nodes |-> num_nodes,
     max_command_per_epoch |-> max_command_per_epoch,
     next_fetched_command_index |-> 0,
     last_committed_ledger_state |-> SimulatedLedgerStateNew,
     pending_ledger_states |-> [x \in {} |-> 0]]

last_committed_state(context) == key(context.last_committed_ledger_state)

get_ledger_state(context, state) ==
    IF state = key(context.last_committed_ledger_state)
    THEN Some(context.last_committed_ledger_state)
    ELSE IF state \in DOMAIN context.pending_ledger_states
    THEN Some(context.pending_ledger_states[state])
    ELSE None

\* CommandFetcher::fetch
fetch(context) ==
    [context |-> [context EXCEPT !.next_fetched_command_index = @ + 1],
     command |-> Some([proposer |-> context.author,
                       index |-> context.next_fetched_command_index])]

\* CommandExecutor::compute
compute(context, base_state, command, time) ==
    LET ledger_state == get_ledger_state(context, base_state)
    IN IF IsSome(ledger_state)
       THEN LET new_ledger_state == execute(Unwrap(ledger_state), command, time)
                new_state == key(new_ledger_state)
            IN [context |-> [context EXCEPT !.pending_ledger_states =
                                                (new_state :> new_ledger_state) @@ @],
                state |-> Some(new_state)]
       ELSE [context |-> context, state |-> None]

\* StateFinalizer::commit: the expect and the two assertions panic.
\* certificate is the value of the commit certificate, if any.
commit_panics(context, state, certificate) ==
    \/ state \notin DOMAIN context.pending_ledger_states
    \/ ~happened_just_before(context.last_committed_ledger_state,
                             context.pending_ledger_states[state])
    \/ /\ IsSome(certificate)
       /\ IsSome(Unwrap(certificate).committed_state)
       /\ Unwrap(Unwrap(certificate).committed_state) # state

commit(context, state) ==
    [context EXCEPT
       !.pending_ledger_states = [x \in DOMAIN @ \ {state} |-> @[x]],
       !.last_committed_ledger_state = context.pending_ledger_states[state]]

\* A context whose EpochReader is that of the Context of the consensus
\* crate, with a committee of the given epoch; the rest is simulated.
CommitteeContextNew(author, num_nodes, epoch) ==
    [x \in {"committee"} |-> [epoch |-> epoch]]
    @@ SimulatedContextNew(author, num_nodes, 1)

OfCommittee(context) == "committee" \in DOMAIN context

\* EpochReader::read_epoch_id of the Context of the consensus crate
CommitteeEpoch(context) == context.committee.epoch

\* EpochReader::read_epoch_id: its expect panics when the state is not known.
read_epoch_id_panics(context, state) ==
    ~OfCommittee(context) /\ ~IsSome(get_ledger_state(context, state))

read_epoch_id(context, state) ==
    IF OfCommittee(context) THEN CommitteeEpoch(context)
    ELSE Len(Unwrap(get_ledger_state(context, state))) \div context.max_command_per_epoch

\* EpochReader::configuration
configuration(context) ==
    EpochConfigurationNew([a \in 0..(context.num_nodes - 1) |-> 1])

\* Hash of the first i votes of a QC, from hasher state h.
RECURSIVE MixVotes(_, _, _)
MixVotes(h, votes, i) ==
    IF i = 0 THEN h
    ELSE Mix(Mix(Mix(MixVotes(h, votes, i - 1), votes[i][1]), votes[i][2][1]),
             votes[i][2][2])

\* CryptographicModule::hash: each Signable value writes its fields in turn.
hash(value) ==
    CASE value.kind = "EpochId" -> Mix(5, value.epoch_id)
      [] value.kind = "Block" ->
             Mix(Mix(Mix(Mix(Mix(Mix(1, value.command.proposer), value.command.index),
                             value.time), value.previous_quorum_certificate_hash),
                     value.round), value.author)
      [] value.kind = "Vote" ->
             Mix(MixOption(Mix(Mix(Mix(Mix(2, value.epoch_id), value.round),
                                   value.certified_block_hash), value.state),
                           value.committed_state), value.author)
      [] value.kind = "QuorumCertificate" ->
             Mix(MixOption(MixVotes(Mix(Mix(Mix(Mix(3, value.epoch_id), value.round),
                                            value.certified_block_hash), value.state),
                                    value.votes, Len(value.votes)),
                           value.committed_state), value.author)
      [] value.kind = "Timeout" ->
             Mix(Mix(Mix(Mix(4, value.epoch_id), value.round),
                     value.highest_certified_block_round), value.author)

\* CryptographicModule::sign
sign(context, hash_value) == <<context.author, hash_value>>

\* CryptographicModule::verify
verify(author, hash_value, signature) ==
    author = signature[1] /\ hash_value = signature[2]

(***************************************************************************)
(* librabft-v2: records.                                                   *)
(***************************************************************************)
\* SignedValue::make
SignedValue(context, value) ==
    [value |-> value, signature |-> sign(context, hash(value))]

Vote_(epoch_id, round, certified_block_hash, state, committed_state, author) ==
    [kind |-> "Vote", epoch_id |-> epoch_id, round |-> round,
     certified_block_hash |-> certified_block_hash, state |-> state,
     committed_state |-> committed_state, author |-> author]

(***************************************************************************)
(* librabft-v2: record store.                                              *)
(***************************************************************************)
\* NodeState::initial_hash
initial_hash(epoch_id) == hash([kind |-> "EpochId", epoch_id |-> epoch_id])

Ongoing(ballot) == [tag |-> "Ongoing", ballot |-> ballot]
Won(block_hash, state) == [tag |-> "Won", block_hash |-> block_hash, state |-> state]
Closed == [tag |-> "Closed"]
EmptyMap == [x \in {} |-> 0]

RecordStoreStateNew(init_hash, initial_state, epoch_id, config) ==
    [epoch_id |-> epoch_id,
     configuration |-> config,
     initial_hash |-> init_hash,
     initial_state |-> initial_state,
     blocks |-> EmptyMap,
     quorum_certificates |-> EmptyMap,
     current_proposed_block |-> None,
     highest_quorum_certificate_round |-> 0,
     highest_quorum_certificate_hash |-> init_hash,
     highest_timeout_certificate_round |-> 0,
     current_round |-> 1,
     highest_committed_round |-> 0,
     highest_commit_certificate_hash |-> None,
     highest_timeout_certificate |-> None,
     current_timeouts |-> EmptyMap,
     current_votes |-> EmptyMap,
     current_timeouts_weight |-> 0,
     current_election |-> Ongoing(EmptyMap)]

\* BackwardQuorumCertificateIterator: the QCs from qc_hash back to the
\* initial hash, highest round first.
RECURSIVE BackwardQuorumCertificates(_, _)
BackwardQuorumCertificates(store, qc_hash) ==
    IF qc_hash = store.initial_hash THEN <<>>
    ELSE LET qc == store.quorum_certificates[qc_hash]
             block == store.blocks[qc.value.certified_block_hash]
         IN <<qc>> \o BackwardQuorumCertificates(
                          store, block.value.previous_quorum_certificate_hash)

ancestor_rounds(store, qc_hash) ==
    LET qcs == BackwardQuorumCertificates(store, qc_hash)
    IN [i \in 1..Len(qcs) |-> qcs[i].value.round]

\* update_current_round that also forgets the committed round.
UpdateCurrentRoundForgettingCommit(store, round) ==
    IF round <= store.current_round THEN store
    ELSE [store EXCEPT !.current_round = round,
                       !.current_proposed_block = None,
                       !.current_timeouts = EmptyMap,
                       !.current_votes = EmptyMap,
                       !.current_timeouts_weight = 0,
                       !.current_election = Ongoing(EmptyMap),
                       !.highest_committed_round = 0]

\* update_current_round without the comparison of the rounds.
UpdateCurrentRoundAlways(store, round) ==
    [store EXCEPT !.current_round = round,
                  !.current_proposed_block = None,
                  !.current_timeouts = EmptyMap,
                  !.current_votes = EmptyMap,
                  !.current_timeouts_weight = 0,
                  !.current_election = Ongoing(EmptyMap)]

update_current_round(store, round) ==
    IF round <= store.current_round THEN store
    ELSE [store EXCEPT !.current_round = round,
                       !.current_proposed_block = None,
                       !.current_timeouts = EmptyMap,
                       !.current_votes = EmptyMap,
                       !.current_timeouts_weight = 0,
                       !.current_election = Ongoing(EmptyMap)]

\* update_commit_3chain_round that commits the second round of the chain.
UpdateCommitOfSecondRound(store, qc_hash) ==
    LET rounds == ancestor_rounds(store, qc_hash)
    IN IF /\ Len(rounds) >= 3
          /\ rounds[1] = rounds[2] + 1
          /\ rounds[2] = rounds[3] + 1
          /\ rounds[3] > store.highest_committed_round
       THEN [store EXCEPT !.highest_committed_round = rounds[2],
                          !.highest_commit_certificate_hash = Some(qc_hash)]
       ELSE store

\* update_commit_3chain_round that compares the two lower rounds only.
UpdateCommit2ChainRound(store, qc_hash) ==
    LET rounds == ancestor_rounds(store, qc_hash)
    IN IF /\ Len(rounds) >= 3
          /\ rounds[2] = rounds[3] + 1
          /\ rounds[3] > store.highest_committed_round
       THEN [store EXCEPT !.highest_committed_round = rounds[3],
                          !.highest_commit_certificate_hash = Some(qc_hash)]
       ELSE store

update_commit_3chain_round(store, qc_hash) ==
    LET rounds == ancestor_rounds(store, qc_hash)
    IN IF /\ Len(rounds) >= 3
          /\ rounds[1] = rounds[2] + 1
          /\ rounds[2] = rounds[3] + 1
          /\ rounds[3] > store.highest_committed_round
       THEN [store EXCEPT !.highest_committed_round = rounds[3],
                          !.highest_commit_certificate_hash = Some(qc_hash)]
       ELSE store

vote_committed_state(store, block_hash) ==
    LET block == store.blocks[block_hash]
        r3 == block.value.round
        qcs == BackwardQuorumCertificates(store, block.value.previous_quorum_certificate_hash)
    IN IF /\ Len(qcs) >= 2
          /\ r3 = qcs[1].value.round + 1
          /\ qcs[1].value.round = qcs[2].value.round + 1
       THEN Some(qcs[2].value.state)
       ELSE None

quorum_certificate(store, qc_hash) ==
    IF qc_hash \in DOMAIN store.quorum_certificates
    THEN Some(store.quorum_certificates[qc_hash]) ELSE None

\* PacemakerState::leader: pick_author seeded by the hash of the round.
leader(store, round) == leaders[round]

\* The signatures of the votes of a QC verify against the vote that the
\* fields of the QC describe.
VotesVerify(store, v) ==
    \A i \in 1..Len(v.votes) :
       verify(v.votes[i][1],
              hash(Vote_(store.epoch_id, v.round, v.certified_block_hash, v.state,
                         v.committed_state, v.votes[i][1])),
              v.votes[i][2])

RECURSIVE VotesWeight(_, _)
VotesWeight(config, votes) ==
    IF votes = <<>> THEN 0
    ELSE weight(config, Head(votes)[1]) + VotesWeight(config, Tail(votes))

\* verify_network_record: "Ok", or the first check that fails.
verify_block(store, block) ==
    LET v == block.value
        prev == v.previous_quorum_certificate_hash
    IN IF hash(v) \in DOMAIN store.blocks THEN "BlockAlreadyInserted"
       ELSE IF ~verify(v.author, hash(v), block.signature) THEN "BadSignature"
       ELSE IF ~(prev = store.initial_hash \/ prev \in DOMAIN store.quorum_certificates)
            THEN "UnknownPreviousQc"
       ELSE IF prev = store.initial_hash
            THEN (IF v.round > 0 THEN "Ok" ELSE "RoundsMustStartAt1")
       ELSE LET previous_qc == store.quorum_certificates[prev]
                previous_block == store.blocks[previous_qc.value.certified_block_hash]
            IN IF v.round > previous_block.value.round THEN "Ok"
               ELSE "RoundsMustBeIncreasing"

\* verify_network_record of a vote without the check of the voter.
VerifyVoteOfAnyVoter(store, vote) ==
    LET v == vote.value
    IN IF v.epoch_id # store.epoch_id THEN "EpochMismatch"
       ELSE IF v.certified_block_hash \notin DOMAIN store.blocks THEN "UnknownBlock"
       ELSE IF store.blocks[v.certified_block_hash].value.round # v.round
            THEN "RoundMismatch"
       ELSE IF vote_committed_state(store, v.certified_block_hash) # v.committed_state
            THEN "BadCommittedState"
       ELSE IF v.round # store.current_round THEN "NotCurrentRound"
       ELSE IF ~verify(v.author, hash(v), vote.signature) THEN "BadSignature"
       ELSE "Ok"

verify_vote(store, vote) ==
    LET v == vote.value
    IN IF v.epoch_id # store.epoch_id THEN "EpochMismatch"
       ELSE IF v.certified_block_hash \notin DOMAIN store.blocks THEN "UnknownBlock"
       ELSE IF store.blocks[v.certified_block_hash].value.round # v.round
            THEN "RoundMismatch"
       ELSE IF vote_committed_state(store, v.certified_block_hash) # v.committed_state
            THEN "BadCommittedState"
       ELSE IF v.round # store.current_round THEN "NotCurrentRound"
       ELSE IF v.author \in DOMAIN store.current_votes THEN "AlreadyVoted"
       ELSE IF ~verify(v.author, hash(v), vote.signature) THEN "BadSignature"
       ELSE "Ok"

\* verify_network_record of a QC without the check of committed_state.
VerifyQuorumCertificateOfAnyCommittedState(store, qc) ==
    LET v == qc.value
    IN IF v.epoch_id # store.epoch_id THEN "EpochMismatch"
       ELSE IF hash(v) \in DOMAIN store.quorum_certificates THEN "QcAlreadyInserted"
       ELSE IF v.certified_block_hash \notin DOMAIN store.blocks THEN "UnknownBlock"
       ELSE IF store.blocks[v.certified_block_hash].value.round # v.round
            THEN "RoundMismatch"
       ELSE IF v.author # store.blocks[v.certified_block_hash].value.author
            THEN "AuthorMismatch"
       ELSE IF ~VotesVerify(store, v) THEN "BadVoteSignature"
       ELSE IF ~(VotesWeight(store.configuration, v.votes)
                    >= quorum_threshold(store.configuration))
            THEN "NoQuorum"
       ELSE IF ~verify(v.author, hash(v), qc.signature) THEN "BadSignature"
       ELSE "Ok"

\* verify_network_record of a QC without the comparison of the rounds.
VerifyQuorumCertificateOfAnyRound(store, qc) ==
    LET v == qc.value
    IN IF v.epoch_id # store.epoch_id THEN "EpochMismatch"
       ELSE IF hash(v) \in DOMAIN store.quorum_certificates THEN "QcAlreadyInserted"
       ELSE IF v.certified_block_hash \notin DOMAIN store.blocks THEN "UnknownBlock"
       ELSE IF v.author # store.blocks[v.certified_block_hash].value.author
            THEN "AuthorMismatch"
       ELSE IF vote_committed_state(store, v.certified_block_hash) # v.committed_state
            THEN "BadCommittedState"
       ELSE IF ~VotesVerify(store, v) THEN "BadVoteSignature"
       ELSE IF ~(VotesWeight(store.configuration, v.votes)
                    >= quorum_threshold(store.configuration))
            THEN "NoQuorum"
       ELSE IF ~verify(v.author, hash(v), qc.signature) THEN "BadSignature"
       ELSE "Ok"

verify_quorum_certificate(store, qc) ==
    LET v == qc.value
    IN IF v.epoch_id # store.epoch_id THEN "EpochMismatch"
       ELSE IF hash(v) \in DOMAIN store.quorum_certificates THEN "QcAlreadyInserted"
       ELSE IF v.certified_block_hash \notin DOMAIN store.blocks THEN "UnknownBlock"
       ELSE IF store.blocks[v.certified_block_hash].value.round # v.round
            THEN "RoundMismatch"
       ELSE IF v.author # store.blocks[v.certified_block_hash].value.author
            THEN "AuthorMismatch"
       ELSE IF vote_committed_state(store, v.certified_block_hash) # v.committed_state
            THEN "BadCommittedState"
       ELSE IF ~VotesVerify(store, v) THEN "BadVoteSignature"
       ELSE IF ~(VotesWeight(store.configuration, v.votes)
                    >= quorum_threshold(store.configuration))
            THEN "NoQuorum"
       ELSE IF ~verify(v.author, hash(v), qc.signature) THEN "BadSignature"
       ELSE "Ok"

\* verify_network_record of a timeout without the check of the author.
VerifyTimeoutOfAnyAuthor(store, timeout) ==
    LET v == timeout.value
    IN IF v.epoch_id # store.epoch_id THEN "EpochMismatch"
       ELSE IF ~(v.highest_certified_block_round <= store.highest_quorum_certificate_round)
            THEN "UnknownCertifiedRound"
       ELSE IF v.round # store.current_round THEN "NotCurrentRound"
       ELSE IF ~verify(v.author, hash(v), timeout.signature) THEN "BadSignature"
       ELSE "Ok"

verify_timeout(store, timeout) ==
    LET v == timeout.value
    IN IF v.epoch_id # store.epoch_id THEN "EpochMismatch"
       ELSE IF ~(v.highest_certified_block_round <= store.highest_quorum_certificate_round)
            THEN "UnknownCertifiedRound"
       ELSE IF v.round # store.current_round THEN "NotCurrentRound"
       ELSE IF v.author \in DOMAIN store.current_timeouts THEN "AlreadyTimedOut"
       ELSE IF ~verify(v.author, hash(v), timeout.signature) THEN "BadSignature"
       ELSE "Ok"

verify_network_record(store, record) ==
    CASE record.value.kind = "Block" -> verify_block(store, record)
      [] record.value.kind = "Vote" -> verify_vote(store, record)
      [] record.value.kind = "QuorumCertificate" -> verify_quorum_certificate(store, record)
      [] record.value.kind = "Timeout" -> verify_timeout(store, record)

compute_state(store, context, block_hash) ==
    LET block == store.blocks[block_hash]
        prev == block.value.previous_quorum_certificate_hash
        previous_state == IF prev = store.initial_hash THEN store.initial_state
                          ELSE store.quorum_certificates[prev].value.state
    IN compute(context, previous_state, block.value.command, block.value.time)

\* The Block arm that takes every block of the current round as the
\* proposed block.
InsertBlockOfAnyAuthor(store, context, block) ==
    LET block_hash == hash(block.value)
        proposed == block.value.round = store.current_round
    IN [store |-> [store EXCEPT
                     !.current_proposed_block = IF proposed THEN Some(block_hash) ELSE @,
                     !.blocks = @ @@ (block_hash :> block)],
        context |-> context, result |-> "Ok"]

insert_block(store, context, block) ==
    LET block_hash == hash(block.value)
        proposed == /\ block.value.round = store.current_round
                    /\ leader(store, block.value.round) = block.value.author
    IN [store |-> [store EXCEPT
                     !.current_proposed_block = IF proposed THEN Some(block_hash) ELSE @,
                     !.blocks = @ @@ (block_hash :> block)],
        context |-> context, result |-> "Ok"]

\* The Vote arm when a won election goes back to a ballot.
InsertVoteReopeningElection(store, context, vote) ==
    LET ballot_key == <<vote.value.certified_block_hash, vote.value.state>>
        election == store.current_election
        entry == (IF ballot_key \in DOMAIN election.ballot THEN election.ballot[ballot_key] ELSE 0)
                 + weight(store.configuration, vote.value.author)
        counted == IF election.tag = "Closed" THEN election
                   ELSE IF election.tag = "Won"
                   THEN Ongoing(ballot_key :> weight(store.configuration, vote.value.author))
                   ELSE IF entry >= quorum_threshold(store.configuration)
                   THEN Won(vote.value.certified_block_hash, vote.value.state)
                   ELSE Ongoing((ballot_key :> entry) @@ election.ballot)
    IN [store |-> [store EXCEPT
                     !.current_votes = (vote.value.author :> vote) @@ @,
                     !.current_election = counted],
        context |-> context, result |-> "Ok"]

insert_vote(store, context, vote) ==
    LET ballot_key == <<vote.value.certified_block_hash, vote.value.state>>
        election == store.current_election
        entry == (IF ballot_key \in DOMAIN election.ballot THEN election.ballot[ballot_key] ELSE 0)
                 + weight(store.configuration, vote.value.author)
        counted == IF election.tag # "Ongoing" THEN election
                   ELSE IF entry >= quorum_threshold(store.configuration)
                   THEN Won(vote.value.certified_block_hash, vote.value.state)
                   ELSE Ongoing((ballot_key :> entry) @@ election.ballot)
    IN [store |-> [store EXCEPT
                     !.current_votes = (vote.value.author :> vote) @@ @,
                     !.current_election = counted],
        context |-> context, result |-> "Ok"]

\* The end of the QuorumCertificate arm of try_insert_network_record: the
\* QC is in the store when the state of its block is computed.
InsertComputed(inserted, qc, qc_hash, computed) ==
    IF ~IsSome(computed.state)
    THEN [store |-> inserted, context |-> computed.context, result |-> "FailedToExecute"]
    ELSE IF Unwrap(computed.state) # qc.value.state
    THEN [store |-> inserted, context |-> computed.context,
          result |-> "ComputedDifferentState"]
    ELSE [store |-> update_commit_3chain_round(
                        update_current_round(
                            IF qc.value.round > inserted.highest_quorum_certificate_round
                            THEN [inserted EXCEPT
                                    !.highest_quorum_certificate_round = qc.value.round,
                                    !.highest_quorum_certificate_hash = qc_hash]
                            ELSE inserted,
                            qc.value.round + 1),
                        qc_hash),
          context |-> computed.context, result |-> "Ok"]

InsertQuorumCertificate(inserted, context, qc, qc_hash) ==
    InsertComputed(inserted, qc, qc_hash,
                   compute_state(inserted, context, qc.value.certified_block_hash))

insert_quorum_certificate(store, context, qc) ==
    InsertQuorumCertificate([store EXCEPT !.quorum_certificates = @ @@ (hash(qc.value) :> qc)],
                            context, qc, hash(qc.value))

\* insert_timeout that makes no timeout certificate.
InsertTimeoutWithoutCertificate(store, context, timeout) ==
    [store |-> [store EXCEPT
                  !.current_timeouts = (timeout.value.author :> timeout) @@ @,
                  !.current_timeouts_weight =
                      @ + weight(store.configuration, timeout.value.author)],
     context |-> context, result |-> "Ok"]

\* insert_timeout whose timeout certificate skips a round.
InsertTimeoutSkippingRound(store, context, timeout) ==
    LET added == [store EXCEPT
                    !.current_timeouts = (timeout.value.author :> timeout) @@ @,
                    !.current_timeouts_weight =
                        @ + weight(store.configuration, timeout.value.author)]
        certificate == {added.current_timeouts[a] : a \in DOMAIN added.current_timeouts}
    IN [store |-> IF added.current_timeouts_weight >= quorum_threshold(store.configuration)
                  THEN update_current_round(
                           [added EXCEPT
                              !.highest_timeout_certificate = Some(certificate),
                              !.highest_timeout_certificate_round = added.current_round],
                           added.current_round + 2)
                  ELSE added,
        context |-> context, result |-> "Ok"]

insert_timeout(store, context, timeout) ==
    LET added == [store EXCEPT
                    !.current_timeouts = (timeout.value.author :> timeout) @@ @,
                    !.current_timeouts_weight =
                        @ + weight(store.configuration, timeout.value.author)]
        certificate == {added.current_timeouts[a] : a \in DOMAIN added.current_timeouts}
    IN [store |-> IF added.current_timeouts_weight >= quorum_threshold(store.configuration)
                  THEN update_current_round(
                           [added EXCEPT
                              !.highest_timeout_certificate = Some(certificate),
                              !.highest_timeout_certificate_round = added.current_round],
                           added.current_round + 1)
                  ELSE added,
        context |-> context, result |-> "Ok"]

\* try_insert_network_record after verify_network_record.
InsertVerified(store, context, record, verified) ==
    IF verified # "Ok"
    THEN [store |-> store, context |-> context, result |-> verified]
    ELSE CASE record.value.kind = "Block" -> insert_block(store, context, record)
           [] record.value.kind = "Vote" -> insert_vote(store, context, record)
           [] record.value.kind = "QuorumCertificate" ->
                  insert_quorum_certificate(store, context, record)
           [] record.value.kind = "Timeout" -> insert_timeout(store, context, record)

\* try_insert_network_record: [store, context, result]
try_insert_network_record(store, context, record) ==
    InsertVerified(store, context, record, verify_network_record(store, record))

\* The store and the context of a result.
Inserted(r) == [store |-> r.store, context |-> r.context]

\* RecordStore::insert_network_record: the error is logged and dropped.
insert_network_record(store, context, record) ==
    Inserted(try_insert_network_record(store, context, record))

(***************************************************************************)
(* librabft-v2: RecordStore trait of RecordStoreState.                     *)
(***************************************************************************)
\* committed_states_after that skips only the topmost QC.
CommittedStatesAfterSkippingOne(store, after_round) ==
    LET cc_hash == IF IsSome(store.highest_commit_certificate_hash)
                   THEN Unwrap(store.highest_commit_certificate_hash)
                   ELSE store.initial_hash
        qcs == BackwardQuorumCertificates(store, cc_hash)
        rest == SubSeq(qcs, 2, Len(qcs))
        taken == CHOOSE k \in 0..Len(rest) :
                    /\ \A i \in 1..k : rest[i].value.round > after_round
                    /\ k < Len(rest) => rest[k + 1].value.round <= after_round
    IN [i \in 1..taken |-> <<rest[taken + 1 - i].value.round,
                             rest[taken + 1 - i].value.state>>]

committed_states_after(store, after_round) ==
    LET cc_hash == IF IsSome(store.highest_commit_certificate_hash)
                   THEN Unwrap(store.highest_commit_certificate_hash)
                   ELSE store.initial_hash
        qcs == BackwardQuorumCertificates(store, cc_hash)
        rest == SubSeq(qcs, 3, Len(qcs))
        \* the loop breaks at the first QC whose round is not above after_round
        taken == CHOOSE k \in 0..Len(rest) :
                    /\ \A i \in 1..k : rest[i].value.round > after_round
                    /\ k < Len(rest) => rest[k + 1].value.round <= after_round
    IN [i \in 1..taken |-> <<rest[taken + 1 - i].value.round,
                             rest[taken + 1 - i].value.state>>]

previous_round(store, block_hash) ==
    LET prev == store.blocks[block_hash].value.previous_quorum_certificate_hash
    IN IF prev = store.initial_hash THEN 0
       ELSE store.blocks[store.quorum_certificates[prev].value.certified_block_hash]
                .value.round

second_previous_round(store, block_hash) ==
    LET prev == store.blocks[block_hash].value.previous_quorum_certificate_hash
    IN IF prev = store.initial_hash THEN 0
       ELSE previous_round(store, store.quorum_certificates[prev].value.certified_block_hash)

\* proposed_block: its two assert_eq! panic.
proposed_block_panics(store, pacemaker) ==
    /\ store.epoch_id = pacemaker.active_epoch
    /\ store.current_round = pacemaker.active_round
    /\ IsSome(pacemaker.active_leader)
    /\ IsSome(store.current_proposed_block)
    /\ LET block == store.blocks[Unwrap(store.current_proposed_block)]
       IN \/ block.value.round # store.current_round
          \/ block.value.author # Unwrap(pacemaker.active_leader)

proposed_block(store, pacemaker) ==
    IF \/ store.epoch_id # pacemaker.active_epoch
       \/ store.current_round # pacemaker.active_round
    THEN None
    ELSE IF IsSome(pacemaker.active_leader) /\ IsSome(store.current_proposed_block)
    THEN LET h == Unwrap(store.current_proposed_block)
             block == store.blocks[h]
         IN Some(<<h, block.value.round, block.value.author>>)
    ELSE None

has_timeout(store, author, round) ==
    round = store.current_round /\ author \in DOMAIN store.current_timeouts

\* create_timeout that names a certified block round above the highest QC.
CreateTimeoutAboveHighestQuorumCertificate(store, context, author, round) ==
    insert_network_record(store, context,
        SignedValue(context,
            [kind |-> "Timeout", epoch_id |-> store.epoch_id, round |-> round,
             highest_certified_block_round |-> store.highest_quorum_certificate_round + 1,
             author |-> author]))

create_timeout(store, context, author, round) ==
    insert_network_record(store, context,
        SignedValue(context,
            [kind |-> "Timeout", epoch_id |-> store.epoch_id, round |-> round,
             highest_certified_block_round |-> store.highest_quorum_certificate_round,
             author |-> author]))

propose_block(store, context, previous_quorum_certificate_hash, time) ==
    LET fetched == fetch(context)
    IN IF IsSome(fetched.command)
       THEN insert_network_record(store, fetched.context,
                SignedValue(fetched.context,
                    [kind |-> "Block", command |-> Unwrap(fetched.command), time |-> time,
                     previous_quorum_certificate_hash |-> previous_quorum_certificate_hash,
                     round |-> store.current_round, author |-> context.author]))
       ELSE [store |-> store, context |-> fetched.context]

\* The end of create_vote: the signed vote is inserted.
Voted(r, vote) ==
    [store |-> r.store, context |-> r.context, created |-> TRUE, vote |-> Some(vote)]

CreateVoteSigned(store, context, vote) ==
    Voted(insert_network_record(store, context, vote), vote)

CreateVoteComputed(store, context, certified_block_hash, computed) ==
    IF IsSome(computed.state)
    THEN CreateVoteSigned(store, computed.context,
             SignedValue(computed.context,
                 Vote_(store.epoch_id, store.blocks[certified_block_hash].value.round,
                       certified_block_hash, Unwrap(computed.state),
                       vote_committed_state(store, certified_block_hash),
                       context.author)))
    ELSE [store |-> store, context |-> computed.context, created |-> FALSE,
          vote |-> None]

\* create_vote: [store, context, created, vote]; vote is the signed Vote, if any.
create_vote(store, context, certified_block_hash) ==
    CreateVoteComputed(store, context, certified_block_hash,
                       compute_state(store, context, certified_block_hash))

\* The end of check_for_new_quorum_certificate: the new QC is inserted.
Certified(r) == [store |-> r.store, context |-> r.context, created |-> TRUE]

\* check_for_new_quorum_certificate. order lists the authors in the iteration
\* order of the current_votes HashMap.
check_for_new_quorum_certificate(store, context, order) ==
    LET election == store.current_election
    IN IF election.tag # "Won"
       THEN [store |-> store, context |-> context, created |-> FALSE]
       ELSE IF store.blocks[election.block_hash].value.author # context.author
       THEN [store |-> store, context |-> context, created |-> FALSE]
       ELSE
         LET voters == SelectSeq(order, LAMBDA a :
                           /\ a \in DOMAIN store.current_votes
                           /\ store.current_votes[a].value.state = election.state)
         IN Certified(insert_network_record(
                [store EXCEPT !.current_election = Closed], context,
                SignedValue(context,
                    [kind |-> "QuorumCertificate", epoch_id |-> store.epoch_id,
                     round |-> store.current_round,
                     certified_block_hash |-> election.block_hash,
                     state |-> election.state,
                     committed_state |-> vote_committed_state(store, election.block_hash),
                     votes |-> [i \in 1..Len(voters) |->
                                   <<store.current_votes[voters[i]].value.author,
                                     store.current_votes[voters[i]].signature>>],
                     author |-> context.author])))

highest_commit_certificate(store) ==
    IF IsSome(store.highest_commit_certificate_hash)
    THEN Some(store.quorum_certificates[Unwrap(store.highest_commit_certificate_hash)])
    ELSE None

highest_quorum_certificate(store) ==
    quorum_certificate(store, store.highest_quorum_certificate_hash)

\* timeouts(): the highest TC, then the timeouts of the current round.
timeouts(store) ==
    (IF IsSome(store.highest_timeout_certificate)
     THEN Unwrap(store.highest_timeout_certificate) ELSE {})
    \cup {store.current_timeouts[a] : a \in DOMAIN store.current_timeouts}

current_vote(store, local_author) ==
    IF local_author \in DOMAIN store.current_votes
    THEN Some(store.current_votes[local_author]) ELSE None

is_power2_minus1(x) == x \in {0, 1, 3, 7, 15, 31, 63}

known_quorum_certificate_rounds(store) ==
    LET cc_hash == IF IsSome(store.highest_commit_certificate_hash)
                   THEN Unwrap(store.highest_commit_certificate_hash)
                   ELSE store.initial_hash
        r1 == ancestor_rounds(store, store.highest_quorum_certificate_hash)
        r2 == ancestor_rounds(store, cc_hash)
    IN {r1[i] : i \in {j \in 1..Len(r1) : is_power2_minus1(j - 1)}}
       \cup {r2[i] : i \in {j \in 1..Len(r2) : is_power2_minus1(j - 1)}}

\* The records of a set in some order.
RECURSIVE Listed(_)
Listed(set) ==
    IF set = {} THEN <<>>
    ELSE LET x == CHOOSE y \in set : TRUE
         IN <<x>> \o Listed(set \ {x})

\* timeouts() as the vector it is: the timeouts of the highest TC, then
\* those of the current round, each group in the order of its iteration.
TimeoutsListed(store) ==
    Listed(IF IsSome(store.highest_timeout_certificate)
           THEN Unwrap(store.highest_timeout_certificate) ELSE {})
    \o Listed({store.current_timeouts[a] : a \in DOMAIN store.current_timeouts})

\* util::merge_sort of two sequences of QCs by decreasing round.
RECURSIVE merge_sort(_, _)
merge_sort(v1, v2) ==
    IF v1 = <<>> THEN v2
    ELSE IF v2 = <<>> THEN v1
    ELSE IF Head(v1).value.round > Head(v2).value.round
    THEN <<Head(v1)>> \o merge_sort(Tail(v1), v2)
    ELSE IF Head(v1).value.round < Head(v2).value.round
    THEN <<Head(v2)>> \o merge_sort(v1, Tail(v2))
    ELSE (IF Head(v1) = Head(v2) THEN <<Head(v1)>> ELSE <<Head(v1), Head(v2)>>)
         \o merge_sort(Tail(v1), Tail(v2))

\* take_while: the QCs of a chain before the first one of a known round.
RECURSIVE UnknownChain(_, _)
UnknownChain(qcs, known_qc_rounds) ==
    IF qcs = <<>> \/ Head(qcs).value.round \in known_qc_rounds THEN <<>>
    ELSE <<Head(qcs)>> \o UnknownChain(Tail(qcs), known_qc_rounds)

\* unknown_records that lists the QCs by decreasing round.
UnknownRecordsBackwards(store, known_qc_rounds) ==
    LET cc_hash == IF IsSome(store.highest_commit_certificate_hash)
                   THEN Unwrap(store.highest_commit_certificate_hash)
                   ELSE store.initial_hash
        qcs == merge_sort(
                   UnknownChain(BackwardQuorumCertificates(
                                    store, store.highest_quorum_certificate_hash),
                                known_qc_rounds),
                   UnknownChain(BackwardQuorumCertificates(store, cc_hash),
                                known_qc_rounds))
        chain == [i \in 1..(2 * Len(qcs)) |->
                     LET qc == qcs[(i + 1) \div 2]
                     IN IF i % 2 = 1 THEN store.blocks[qc.value.certified_block_hash]
                        ELSE qc]
    IN chain \o TimeoutsListed(store)
       \o (IF IsSome(store.current_proposed_block)
           THEN <<store.blocks[Unwrap(store.current_proposed_block)]>> ELSE <<>>)

\* unknown_records: the blocks and the QCs of the chains of the highest QC
\* and of the highest commit certificate down to the first known round, by
\* increasing round, then the timeouts and the proposed block.
unknown_records(store, known_qc_rounds) ==
    LET cc_hash == IF IsSome(store.highest_commit_certificate_hash)
                   THEN Unwrap(store.highest_commit_certificate_hash)
                   ELSE store.initial_hash
        qcs == merge_sort(
                   UnknownChain(BackwardQuorumCertificates(
                                    store, store.highest_quorum_certificate_hash),
                                known_qc_rounds),
                   UnknownChain(BackwardQuorumCertificates(store, cc_hash),
                                known_qc_rounds))
        chain == [i \in 1..(2 * Len(qcs)) |->
                     LET qc == qcs[Len(qcs) + 1 - ((i + 1) \div 2)]
                     IN IF i % 2 = 1 THEN store.blocks[qc.value.certified_block_hash]
                        ELSE qc]
    IN chain \o TimeoutsListed(store)
       \o (IF IsSome(store.current_proposed_block)
           THEN <<store.blocks[Unwrap(store.current_proposed_block)]>> ELSE <<>>)

(***************************************************************************)
(* librabft-v2: pacemaker.                                                 *)
(***************************************************************************)
PacemakerStateNew(epoch_id, node_time, delta, gamma, lambda) ==
    [active_epoch |-> epoch_id, active_round |-> 0, active_leader |-> None,
     active_round_start_time |-> node_time, active_round_duration |-> 0,
     delta |-> delta, gamma |-> gamma, lambda |-> lambda]

RECURSIVE Pow(_, _)
Pow(n, e) == IF e = 0 THEN 1 ELSE n * Pow(n, e - 1)

highest_commit_certificate_round(store) ==
    IF store.highest_committed_round > 0 THEN store.highest_committed_round + 2 ELSE 0

\* duration: its assert! panics.
duration_panics(store, round) == ~(round > highest_commit_certificate_round(store))

\* duration that grows with the rounds, without the exponent gamma.
DurationWithoutGamma(pacemaker, store, round) ==
    pacemaker.delta * (round - highest_commit_certificate_round(store))

\* gamma is a whole exponent here; the cast to i64 truncates nothing.
duration(pacemaker, store, round) ==
    pacemaker.delta * Pow(round - highest_commit_certificate_round(store), pacemaker.gamma)

PacemakerUpdateActionsDefault ==
    [next_scheduled_update |-> Never, should_create_timeout |-> None,
     should_send |-> {}, should_broadcast |-> FALSE, should_query_all |-> FALSE,
     should_propose_block |-> None]

\* update_pacemaker of a leader that proposes at every call.
UpdatePacemakerProposingAgain(pacemaker, local_author, epoch_id, store, latest_query_all_time, clk) ==
    LET active_round == Max(store.highest_quorum_certificate_round,
                            store.highest_timeout_certificate_round) + 1
        entered == \/ epoch_id > pacemaker.active_epoch
                   \/ (epoch_id = pacemaker.active_epoch /\ active_round > pacemaker.active_round)
        panics == entered /\ duration_panics(store, active_round)
        p1 == IF entered /\ ~panics
              THEN [pacemaker EXCEPT
                      !.active_epoch = epoch_id,
                      !.active_round = active_round,
                      !.active_round_start_time = clk,
                      !.active_leader = Some(leader(store, active_round)),
                      !.active_round_duration = duration(pacemaker, store, active_round)]
              ELSE pacemaker
        a2 == IF p1.active_leader = Some(local_author)
              THEN [PacemakerUpdateActionsDefault EXCEPT
                      !.should_propose_block = Some(store.highest_quorum_certificate_hash),
                      !.should_broadcast = TRUE,
                      !.next_scheduled_update = clk]
              ELSE PacemakerUpdateActionsDefault
    IN [pacemaker |-> p1, actions |-> a2,
        panic |-> \/ panics
                  \/ (p1.active_leader = Some(local_author)
                      /\ proposed_block_panics(store, p1))]

\* update_pacemaker that enters a round only when the active round
\* increased, whatever the epoch.
UpdatePacemakerIgnoringEpoch(pacemaker, local_author, epoch_id, store, latest_query_all_time, clk) ==
    LET active_round == Max(store.highest_quorum_certificate_round,
                            store.highest_timeout_certificate_round) + 1
        entered == active_round > pacemaker.active_round
        panics == entered /\ duration_panics(store, active_round)
        p1 == IF entered /\ ~panics
              THEN [pacemaker EXCEPT
                      !.active_epoch = epoch_id,
                      !.active_round = active_round,
                      !.active_round_start_time = clk,
                      !.active_leader = Some(leader(store, active_round)),
                      !.active_round_duration = duration(pacemaker, store, active_round)]
              ELSE pacemaker
    IN [pacemaker |-> p1, actions |-> PacemakerUpdateActionsDefault,
        panic |-> \/ panics
                  \/ (p1.active_leader = Some(local_author)
                      /\ proposed_block_panics(store, p1))]

update_pacemaker(pacemaker, local_author, epoch_id, store, latest_query_all_time, clk) ==
    LET active_round == Max(store.highest_quorum_certificate_round,
                            store.highest_timeout_certificate_round) + 1
        entered == \/ epoch_id > pacemaker.active_epoch
                   \/ (epoch_id = pacemaker.active_epoch /\ active_round > pacemaker.active_round)
        panics == entered /\ duration_panics(store, active_round)
        p1 == IF entered /\ ~panics
              THEN [pacemaker EXCEPT
                      !.active_epoch = epoch_id,
                      !.active_round = active_round,
                      !.active_round_start_time = clk,
                      !.active_leader = Some(leader(store, active_round)),
                      !.active_round_duration = duration(pacemaker, store, active_round)]
              ELSE pacemaker
        a1 == IF entered /\ p1.active_leader # Some(local_author)
              THEN [PacemakerUpdateActionsDefault EXCEPT
                      !.should_send = {Unwrap(p1.active_leader)}]
              ELSE PacemakerUpdateActionsDefault
        a2 == IF p1.active_leader = Some(local_author) /\ proposed_block(store, p1) = None
              THEN [a1 EXCEPT
                      !.should_propose_block = Some(store.highest_quorum_certificate_hash),
                      !.should_broadcast = TRUE,
                      !.next_scheduled_update = clk]
              ELSE a1
        timeout_deadline == p1.active_round_start_time + p1.active_round_duration
        period == (p1.lambda * p1.active_round_duration) \div 100
        query_all_deadline == latest_query_all_time + period
        a3 == IF ~has_timeout(store, local_author, active_round)
              THEN IF clk >= timeout_deadline
                   THEN [a2 EXCEPT !.should_create_timeout = Some(active_round),
                                   !.should_broadcast = TRUE]
                   ELSE [a2 EXCEPT !.next_scheduled_update = Min(@, timeout_deadline)]
              ELSE IF clk >= query_all_deadline
                   THEN [a2 EXCEPT !.should_query_all = TRUE,
                                   !.next_scheduled_update = Min(@, clk + period)]
                   ELSE [a2 EXCEPT !.next_scheduled_update = Min(@, query_all_deadline)]
    IN [pacemaker |-> p1, actions |-> a3,
        panic |-> \/ panics
                  \/ (p1.active_leader = Some(local_author)
                      /\ proposed_block_panics(store, p1))]

(***************************************************************************)
(* librabft-v2: node.                                                      *)
(***************************************************************************)
CommitTrackerNew(epoch_id, node_time, target_commit_interval) ==
    [epoch_id |-> epoch_id, highest_committed_round |-> 0,
     latest_commit_time |-> node_time,
     target_commit_interval |-> target_commit_interval]

\* NodeConfig: [target_commit_interval, delta, gamma, lambda]
make_initial_state(context, config, node_time) ==
    LET initial_state == last_committed_state(context)
        epoch_id == read_epoch_id(context, initial_state)
    IN [record_store |-> RecordStoreStateNew(initial_hash(epoch_id), initial_state,
                                             epoch_id, configuration(context)),
        pacemaker |-> PacemakerStateNew(epoch_id, node_time, config.delta,
                                        config.gamma, config.lambda),
        epoch_id |-> epoch_id,
        latest_voted_round |-> 0,
        locked_round |-> 0,
        latest_query_all_time |-> node_time,
        tracker |-> CommitTrackerNew(epoch_id, node_time, config.target_commit_interval),
        past_record_stores |-> EmptyMap]

\* CommitTracker::update_tracker that keeps its highest committed round.
UpdateTrackerKeepingRound(tracker, latest_query_all_time, clk, current_epoch_id, store) ==
    LET t1 == IF current_epoch_id > tracker.epoch_id
              THEN [tracker EXCEPT !.epoch_id = current_epoch_id,
                                   !.highest_committed_round = store.highest_committed_round,
                                   !.latest_commit_time = clk]
              ELSE IF store.highest_committed_round > tracker.highest_committed_round
              THEN [tracker EXCEPT !.latest_commit_time = clk]
              ELSE tracker
        deadline == Max(t1.latest_commit_time, latest_query_all_time)
                    + t1.target_commit_interval
    IN [tracker |-> t1,
        should_query_all |-> clk >= deadline,
        next_scheduled_update |-> IF clk >= deadline
                                  THEN clk + t1.target_commit_interval ELSE deadline]

\* CommitTracker::update_tracker that asks to query all only after the
\* deadline has passed.
UpdateTrackerQueryingLate(tracker, latest_query_all_time, clk, current_epoch_id, store) ==
    LET t1 == IF current_epoch_id > tracker.epoch_id
              THEN [tracker EXCEPT !.epoch_id = current_epoch_id,
                                   !.highest_committed_round = store.highest_committed_round,
                                   !.latest_commit_time = clk]
              ELSE IF store.highest_committed_round > tracker.highest_committed_round
              THEN [tracker EXCEPT !.highest_committed_round = store.highest_committed_round,
                                   !.latest_commit_time = clk]
              ELSE tracker
        deadline == Max(t1.latest_commit_time, latest_query_all_time)
                    + t1.target_commit_interval
    IN [tracker |-> t1,
        should_query_all |-> clk > deadline,
        next_scheduled_update |-> IF clk > deadline
                                  THEN clk + t1.target_commit_interval ELSE deadline]

\* CommitTracker::update_tracker: [tracker, should_query_all, next_scheduled_update]
update_tracker(tracker, latest_query_all_time, clk, current_epoch_id, store) ==
    LET t1 == IF current_epoch_id > tracker.epoch_id
              THEN [tracker EXCEPT !.epoch_id = current_epoch_id,
                                   !.highest_committed_round = store.highest_committed_round,
                                   !.latest_commit_time = clk]
              ELSE IF store.highest_committed_round > tracker.highest_committed_round
              THEN [tracker EXCEPT !.highest_committed_round = store.highest_committed_round,
                                   !.latest_commit_time = clk]
              ELSE tracker
        deadline == Max(t1.latest_commit_time, latest_query_all_time)
                    + t1.target_commit_interval
    IN [tracker |-> t1,
        should_query_all |-> clk >= deadline,
        next_scheduled_update |-> IF clk >= deadline
                                  THEN clk + t1.target_commit_interval ELSE deadline]

\* NodeState::update_tracker (the actions are ignored)
node_update_tracker(node, clk) ==
    [node EXCEPT !.tracker = update_tracker(node.tracker, node.latest_query_all_time, clk,
                                            node.epoch_id, node.record_store).tracker]

\* The node and the context after an insertion in its record store.
Stored(node, r) ==
    [node |-> [node EXCEPT !.record_store = r.store], context |-> r.context]

\* NodeState::insert_network_record without the comparison of the epochs.
NodeInsertRecordOfAnyEpoch(node, context, epoch_id, record) ==
    Stored(node, insert_network_record(node.record_store, context, record))

\* NodeState::insert_network_record: records of other epochs are skipped.
node_insert_network_record(node, context, epoch_id, record) ==
    IF epoch_id = node.epoch_id
    THEN Stored(node, insert_network_record(node.record_store, context, record))
    ELSE [node |-> node, context |-> context]

\* process_commits that drops the record store of the epoch that ended.
ChangeEpochDroppingStore(node, context, new_epoch_id, state) ==
    [node EXCEPT
       !.record_store = RecordStoreStateNew(initial_hash(new_epoch_id), state, new_epoch_id,
                                            configuration(context)),
       !.epoch_id = new_epoch_id,
       !.latest_voted_round = 0,
       !.locked_round = 0]

\* process_commits without the reset of locked_round.
ChangeEpochKeepingLock(node, context, new_epoch_id, state) ==
    [node EXCEPT
       !.record_store = RecordStoreStateNew(initial_hash(new_epoch_id), state, new_epoch_id,
                                            configuration(context)),
       !.past_record_stores = (node.epoch_id :> node.record_store) @@ @,
       !.epoch_id = new_epoch_id,
       !.latest_voted_round = 0]

\* process_commits, the change of epoch: a new record store, the old one
\* kept, and the voting constraints reset.
ChangeEpoch(node, context, new_epoch_id, state) ==
    [node EXCEPT
       !.record_store = RecordStoreStateNew(initial_hash(new_epoch_id), state, new_epoch_id,
                                            configuration(context)),
       !.past_record_stores = (node.epoch_id :> node.record_store) @@ @,
       !.epoch_id = new_epoch_id,
       !.latest_voted_round = 0,
       !.locked_round = 0]

\* The loop of process_commits from its i-th commit on. done lists the
\* calls of context.commit as <<epoch, round, state>>; panic tells that the
\* last of these calls, or the read_epoch_id after it, panicked.
RECURSIVE ProcessCommitsFrom(_, _, _, _, _)
ProcessCommitsFrom(node, context, commits, i, done) ==
    IF i > Len(commits)
    THEN [node |-> node, context |-> context, delivered |-> done, panic |-> FALSE]
    ELSE
      LET round == commits[i][1]
          state == commits[i][2]
          store == node.record_store
          certificate ==
              IF round = store.highest_committed_round
                 /\ IsSome(highest_commit_certificate(store))
              THEN Some(Unwrap(highest_commit_certificate(store)).value)
              ELSE None
          calls == Append(done, <<node.epoch_id, round, state>>)
      IN IF commit_panics(context, state, certificate)
         THEN [node |-> node, context |-> context, delivered |-> calls, panic |-> TRUE]
         ELSE
           LET ctx == commit(context, state)
               new_epoch_id == read_epoch_id(ctx, state)
           IN IF read_epoch_id_panics(ctx, state)
              THEN [node |-> node, context |-> ctx, delivered |-> calls, panic |-> TRUE]
              ELSE IF new_epoch_id > node.epoch_id
              THEN [node |-> ChangeEpoch(node, ctx, new_epoch_id, state),
                    context |-> ctx, delivered |-> calls, panic |-> FALSE]
              ELSE ProcessCommitsFrom(node, ctx, commits, i + 1, calls)

process_commits(node, context) ==
    ProcessCommitsFrom(node, context,
        committed_states_after(node.record_store, node.tracker.highest_committed_round),
        1, <<>>)

\* process_pacemaker_actions, should_create_timeout.
TimedOut(node, round, r) ==
    [node |-> [node EXCEPT !.record_store = r.store,
                           !.latest_voted_round = Max(@, round)],
     context |-> r.context]

\* process_pacemaker_actions creating the timeout without max_update of
\* latest_voted_round.
PacemakerTimeoutWithoutClamp(node, context, pacemaker_actions) ==
    IF IsSome(pacemaker_actions.should_create_timeout)
    THEN [node |-> [node EXCEPT !.record_store =
                       create_timeout(node.record_store, context, context.author,
                                      Unwrap(pacemaker_actions.should_create_timeout)).store],
          context |-> create_timeout(node.record_store, context, context.author,
                                     Unwrap(pacemaker_actions.should_create_timeout)).context]
    ELSE [node |-> node, context |-> context]

PacemakerTimeout(node, context, pacemaker_actions) ==
    IF IsSome(pacemaker_actions.should_create_timeout)
    THEN TimedOut(node, Unwrap(pacemaker_actions.should_create_timeout),
                  create_timeout(node.record_store, context, context.author,
                                 Unwrap(pacemaker_actions.should_create_timeout)))
    ELSE [node |-> node, context |-> context]

\* process_pacemaker_actions, should_propose_block.
PacemakerProposal(r, pacemaker_actions, clk) ==
    IF IsSome(pacemaker_actions.should_propose_block)
    THEN Stored(r.node, propose_block(r.node.record_store, r.context,
                                      Unwrap(pacemaker_actions.should_propose_block), clk))
    ELSE r

\* process_pacemaker_actions: [node, context]
process_pacemaker_actions(node, context, pacemaker_actions, clk) ==
    PacemakerProposal(PacemakerTimeout(node, context, pacemaker_actions),
                      pacemaker_actions, clk)

\* update_node, the vote: the node votes for the proposed block of the
\* pacemaker when its round and its previous round allow it.
NodeVoted(node, r) ==
    [node |-> [node EXCEPT !.record_store = r.store], context |-> r.context,
     created |-> r.created, vote |-> r.vote]

\* update_node voting whatever the latest voted round.
UpdateNodeVoteIgnoringVotedRound(node, context, proposal) ==
    IF /\ IsSome(proposal)
       /\ previous_round(node.record_store, Unwrap(proposal)[1]) >= node.locked_round
    THEN NodeVoted([node EXCEPT
                      !.latest_voted_round = Unwrap(proposal)[2],
                      !.locked_round =
                          Max(@, second_previous_round(node.record_store,
                                                       Unwrap(proposal)[1]))],
                   create_vote(node.record_store, context, Unwrap(proposal)[1]))
    ELSE [node |-> node, context |-> context, created |-> FALSE, vote |-> None]

\* update_node voting without raising the locked round.
UpdateNodeVoteKeepingLock(node, context, proposal) ==
    IF /\ IsSome(proposal)
       /\ Unwrap(proposal)[2] > node.latest_voted_round
       /\ previous_round(node.record_store, Unwrap(proposal)[1]) >= node.locked_round
    THEN NodeVoted([node EXCEPT !.latest_voted_round = Unwrap(proposal)[2]],
                   create_vote(node.record_store, context, Unwrap(proposal)[1]))
    ELSE [node |-> node, context |-> context, created |-> FALSE, vote |-> None]

UpdateNodeVote(node, context, proposal) ==
    IF /\ IsSome(proposal)
       /\ Unwrap(proposal)[2] > node.latest_voted_round
       /\ previous_round(node.record_store, Unwrap(proposal)[1]) >= node.locked_round
    THEN NodeVoted([node EXCEPT
                      !.latest_voted_round = Unwrap(proposal)[2],
                      !.locked_round =
                          Max(@, second_previous_round(node.record_store,
                                                       Unwrap(proposal)[1]))],
                   create_vote(node.record_store, context, Unwrap(proposal)[1]))
    ELSE [node |-> node, context |-> context, created |-> FALSE, vote |-> None]

UpdateNodeVoted(actions, proposal, voted) ==
    [node |-> voted.node, context |-> voted.context,
     actions |-> IF voted.created
                 THEN [actions EXCEPT !.should_send = {Unwrap(proposal)[3]}]
                 ELSE actions,
     votes |-> IF IsSome(voted.vote) THEN {Unwrap(voted.vote)} ELSE {},
     panic |-> FALSE]

UpdateNodeActions(node0, context0, actions, pa) ==
    IF proposed_block_panics(pa.node.record_store, pa.node.pacemaker)
    THEN [node |-> node0, context |-> context0, actions |-> actions, votes |-> {},
          panic |-> TRUE]
    ELSE UpdateNodeVoted(actions,
                         proposed_block(pa.node.record_store, pa.node.pacemaker),
                         UpdateNodeVote(pa.node, pa.context,
                                        proposed_block(pa.node.record_store,
                                                       pa.node.pacemaker)))

UpdateNodePacemaker(node0, context0, clk, pm) ==
    IF pm.panic
    THEN [node |-> node0, context |-> context0, actions |-> pm.actions, votes |-> {},
          panic |-> TRUE]
    ELSE UpdateNodeActions(node0, context0,
             [next_scheduled_update |-> pm.actions.next_scheduled_update,
              should_broadcast |-> pm.actions.should_broadcast,
              should_query_all |-> pm.actions.should_query_all,
              should_send |-> pm.actions.should_send],
             process_pacemaker_actions([node0 EXCEPT !.pacemaker = pm.pacemaker],
                                       context0, pm.actions, clk))

\* update_node up to its call of check_for_new_quorum_certificate:
\* [node, context, actions, votes, panic]. votes is the set of votes that
\* create_vote signed.
update_node_votes(node0, context0, clk) ==
    UpdateNodePacemaker(node0, context0, clk,
        update_pacemaker(node0.pacemaker, context0.author, node0.epoch_id,
                         node0.record_store, node0.latest_query_all_time, clk))

\* update_node, the commits and the tracker.
UpdateNodeTracked(voted, actions, clk, pc, tr) ==
    [node |-> [pc.node EXCEPT
                 !.tracker = tr.tracker,
                 !.latest_query_all_time =
                     IF actions.should_query_all \/ tr.should_query_all THEN clk ELSE @],
     context |-> pc.context,
     actions |-> [actions EXCEPT
                    !.should_query_all = @ \/ tr.should_query_all,
                    !.next_scheduled_update = Min(@, tr.next_scheduled_update)],
     votes |-> voted.votes, delivered |-> pc.delivered, panic |-> pc.panic]

UpdateNodeCommitted(voted, actions, clk, pc) ==
    UpdateNodeTracked(voted, actions, clk, pc,
                      update_tracker(pc.node.tracker, pc.node.latest_query_all_time, clk,
                                     pc.node.epoch_id, pc.node.record_store))

UpdateNodeCertified(voted, clk, qc) ==
    UpdateNodeCommitted(voted,
                        IF qc.created
                        THEN [voted.actions EXCEPT !.should_broadcast = TRUE,
                                                   !.next_scheduled_update = clk]
                        ELSE voted.actions,
                        clk,
                        process_commits([voted.node EXCEPT !.record_store = qc.store],
                                        qc.context))

\* update_node from its call of check_for_new_quorum_certificate on.
update_node_commits(voted, clk, order) ==
    IF voted.panic
    THEN [node |-> voted.node, context |-> voted.context, actions |-> voted.actions,
          votes |-> {}, delivered |-> <<>>, panic |-> TRUE]
    ELSE UpdateNodeCertified(voted, clk,
             check_for_new_quorum_certificate(voted.node.record_store, voted.context,
                                              order))

\* update_node: [node, context, actions, votes, delivered, panic]. order is
\* the iteration order of the current_votes HashMap.
update_node(node0, context0, clk, order) ==
    update_node_commits(update_node_votes(node0, context0, clk), clk, order)

\* bincode::serialize of a NodeState: its fields in the order of their
\* declaration.
serialize(node) ==
    <<node.record_store, node.pacemaker, node.epoch_id, node.latest_voted_round,
      node.locked_round, node.latest_query_all_time, node.tracker,
      node.past_record_stores>>

\* bincode::deserialize of a NodeState.
deserialize(value) ==
    [record_store |-> value[1], pacemaker |-> value[2], epoch_id |-> value[3],
     latest_voted_round |-> value[4], locked_round |-> value[5],
     latest_query_all_time |-> value[6], tracker |-> value[7],
     past_record_stores |-> value[8]]

\* Storage: one value under each key.
store_value(storage, k, value) == (k :> value) @@ storage

read_value(storage, k) == IF k \in DOMAIN storage THEN Some(storage[k]) ELSE None

\* save_node: the storage of the context after the call.
save_node(node, storage) == store_value(storage, "node_state", serialize(node))

LoadNodeChecked(value, node_time, previous_time) ==
    IF node_time >= previous_time
    THEN [result |-> "Ok", node |-> Some(deserialize(value))]
    ELSE [result |-> "refusing to restore saved state from the future", node |-> None]

\* load_node that also refuses a state saved at the time of the call.
LoadNodeStrictlyLater(storage, node_time) ==
    LET value == read_value(storage, "node_state")
    IN IF ~IsSome(value) THEN [result |-> "missing state value", node |-> None]
       ELSE LET node == deserialize(Unwrap(value))
            IN LoadNodeChecked(Unwrap(value), node_time,
                               1 + Max(node.latest_query_all_time,
                                       Max(node.tracker.latest_commit_time,
                                           node.pacemaker.active_round_start_time)))

\* load_node: [result, node].
load_node(storage, node_time) ==
    LET value == read_value(storage, "node_state")
    IN IF ~IsSome(value) THEN [result |-> "missing state value", node |-> None]
       ELSE LET node == deserialize(Unwrap(value))
            IN LoadNodeChecked(Unwrap(value), node_time,
                               Max(node.latest_query_all_time,
                                   Max(node.tracker.latest_commit_time,
                                       node.pacemaker.active_round_start_time)))

(***************************************************************************)
(* librabft-v2: data synchronisation.                                      *)
(***************************************************************************)
\* EpochId::previous
previous(epoch_id) == IF epoch_id = 0 THEN None ELSE Some(epoch_id)

record_store_at(node, epoch_id) ==
    IF epoch_id = node.epoch_id THEN Some(node.record_store)
    ELSE IF epoch_id \in DOMAIN node.past_record_stores
    THEN Some(node.past_record_stores[epoch_id])
    ELSE None

create_request_internal(node) ==
    [current_epoch |-> node.epoch_id,
     known_quorum_certificates |-> known_quorum_certificate_rounds(node.record_store)]

\* handle_request: [response, panic]. The node is left as it is.
handle_request(node, request) ==
    LET first == record_store_at(node, request.current_epoch)
        later == (request.current_epoch + 1)..node.epoch_id
    IN [response |->
           [current_epoch |-> node.epoch_id,
            records |->
               (IF IsSome(first)
                THEN <<<<request.current_epoch,
                         unknown_records(Unwrap(first),
                                         request.known_quorum_certificates)>>>>
                ELSE <<>>)
               \o [i \in 1..Cardinality(later) |->
                      <<request.current_epoch + i,
                        IF IsSome(record_store_at(node, request.current_epoch + i))
                        THEN unknown_records(
                                 Unwrap(record_store_at(node, request.current_epoch + i)),
                                 {})
                        ELSE <<>>>>]],
        panic |-> \E e \in later : ~IsSome(record_store_at(node, e))]

\* create_notification. Its timeouts are a set here; handle_notification
\* takes them in any order.
create_notification(node, context) ==
    LET store == node.record_store
        proposal == proposed_block(store, node.pacemaker)
    IN [current_epoch |-> node.epoch_id,
        highest_commit_certificate |->
            IF IsSome(highest_commit_certificate(store))
            THEN highest_commit_certificate(store)
            ELSE IF IsSome(previous(node.epoch_id))
            THEN highest_commit_certificate(
                     Unwrap(record_store_at(node, Unwrap(previous(node.epoch_id)))))
            ELSE None,
        highest_quorum_certificate |-> highest_quorum_certificate(store),
        timeouts |-> timeouts(store),
        current_vote |-> current_vote(store, context.author),
        proposed_block |->
            IF IsSome(proposal) /\ Unwrap(proposal)[3] = context.author
            THEN Some(store.blocks[Unwrap(proposal)[1]]) ELSE None]

\* Inserts the records of a sequence in order, all under the same epoch;
\* r is [node, context].
RECURSIVE InsertRecords(_, _, _)
InsertRecords(r, epoch_id, records) ==
    IF records = <<>> THEN [node |-> r.node, context |-> r.context]
    ELSE InsertRecords(node_insert_network_record(r.node, r.context, epoch_id,
                                                  Head(records)),
                       epoch_id, Tail(records))

\* handle_notification, the highest commit certificate; h is
\* [node, context, should_sync].
CommitCertificateHandled(h, qc, r) ==
    [node |-> r.node, context |-> r.context,
     should_sync |-> \/ h.should_sync
                     \/ qc.value.epoch_id > r.node.epoch_id
                     \/ /\ qc.value.epoch_id = r.node.epoch_id
                        /\ qc.value.round > r.node.record_store.highest_committed_round + 2]

HandleCommitCertificate(h, hcc) ==
    IF IsSome(hcc)
    THEN CommitCertificateHandled(h, Unwrap(hcc),
             node_insert_network_record(h.node, h.context,
                 Unwrap(hcc).value.epoch_id,
                 Unwrap(hcc)))
    ELSE h

\* handle_notification that asks for no data when the highest QC of the
\* notification is of a later epoch.
QuorumCertificateHandledInEpoch(h, qc, r) ==
    [node |-> r.node, context |-> r.context,
     should_sync |-> \/ h.should_sync
                     \/ /\ qc.value.epoch_id = r.node.epoch_id
                        /\ qc.value.round
                               > r.node.record_store.highest_quorum_certificate_round]

\* handle_notification, the highest quorum certificate.
QuorumCertificateHandled(h, qc, r) ==
    [node |-> r.node, context |-> r.context,
     should_sync |-> \/ h.should_sync
                     \/ qc.value.epoch_id > r.node.epoch_id
                     \/ /\ qc.value.epoch_id = r.node.epoch_id
                        /\ qc.value.round
                               > r.node.record_store.highest_quorum_certificate_round]

HandleQuorumCertificate(h, hqc) ==
    IF IsSome(hqc)
    THEN QuorumCertificateHandled(h, Unwrap(hqc),
             node_insert_network_record(h.node, h.context,
                 Unwrap(hqc).value.epoch_id,
                 Unwrap(hqc)))
    ELSE h

\* handle_notification, the request.
NotificationHandled(should_sync, r) ==
    [node |-> r.node, context |-> r.context,
     request |-> IF should_sync THEN Some(create_request_internal(r.node)) ELSE None]

\* handle_notification, the proposed block, the timeouts and the vote.
HandleRecords(h, notification) ==
    NotificationHandled(h.should_sync,
        InsertRecords(
            InsertRecords(
                InsertRecords(h, notification.current_epoch, notification.proposed_block),
                notification.current_epoch, notification.timeouts),
            notification.current_epoch, notification.current_vote))

\* handle_notification: [node, context, request]; timeouts is a sequence.
handle_notification(node0, context0, notification) ==
    HandleRecords(
        HandleQuorumCertificate(
            HandleCommitCertificate(
                [node |-> node0, context |-> context0,
                 should_sync |-> notification.current_epoch > node0.epoch_id],
                notification.highest_commit_certificate),
            notification.highest_quorum_certificate),
        notification)

\* The loop of handle_response from its i-th batch on: [node, context,
\* delivered, panic].
RECURSIVE HandleResponseFrom(_, _, _, _, _, _)
BatchCommitted(pc, batches, i, clk, done) ==
    IF pc.panic
    THEN [node |-> pc.node, context |-> pc.context,
          delivered |-> done \o pc.delivered, panic |-> TRUE]
    ELSE HandleResponseFrom(node_update_tracker(pc.node, clk), pc.context, batches,
                            i + 1, clk, done \o pc.delivered)

BatchInserted(r, batches, i, clk, done) ==
    IF i = Len(batches)
    THEN [node |-> r.node, context |-> r.context, delivered |-> done, panic |-> FALSE]
    ELSE BatchCommitted(process_commits(r.node, r.context), batches, i, clk, done)

HandleResponseFrom(node, context, batches, i, clk, done) ==
    IF i > Len(batches)
    THEN [node |-> node, context |-> context, delivered |-> done, panic |-> FALSE]
    ELSE IF batches[i][1] < node.epoch_id
    THEN HandleResponseFrom(node, context, batches, i + 1, clk, done)
    ELSE IF batches[i][1] > node.epoch_id
    THEN [node |-> node, context |-> context, delivered |-> done, panic |-> FALSE]
    ELSE BatchInserted(InsertRecords([node |-> node, context |-> context],
                                     batches[i][1], batches[i][2]),
                       batches, i, clk, done)

handle_response(node, context, response, clk) ==
    HandleResponseFrom(node, context, response.records, 1, clk, <<>>)

(***************************************************************************)
(* The network. Replicas in DOMAIN nodes run the code; the authors in      *)
(* byzantine sign anything; what reaches a replica is any record that the  *)
(* byzantine authors can sign, its own records again, and single-fault     *)
(* variants of these records.                                              *)
(***************************************************************************)
Replicas == DOMAIN nodes

Range(f) == {f[x] : x \in DOMAIN f}

\* The ledger of a state that a context has computed: a prefix of its
\* committed ledger or a pending ledger; the empty ledger for other states.
LedgerOf(context, state) ==
    LET committed == context.last_committed_ledger_state
        known == {SubSeq(committed, 1, k) : k \in 0..Len(committed)}
                 \cup Range(context.pending_ledger_states)
        found == {l \in known : key(l) = state}
    IN IF found = {} THEN SimulatedLedgerStateNew ELSE CHOOSE l \in found : TRUE

\* The state that executing a block yields, whether or not the context can
\* still execute it.
ExpectedState(context, store, block) ==
    LET prev == block.value.previous_quorum_certificate_hash
        base == IF prev = store.initial_hash THEN store.initial_state
                ELSE store.quorum_certificates[prev].value.state
    IN key(execute(LedgerOf(context, base), block.value.command, block.value.time))

OtherState(state) == state + 1

Signed(author, value) == [value |-> value, signature |-> <<author, hash(value)>>]

\* A signature over another hash.
BadlySigned(record) == [record EXCEPT !.signature[2] = @ + 1]

\* Blocks that extend the highest QC, at the current round or, with gaps,
\* at the next one. The byzantine authors equivocate: the blocks they make
\* for a store carry the command of the given index.
AdversaryBlocks(store, index) ==
    IF Cardinality(DOMAIN store.blocks) >= MaxBlocks THEN {}
    ELSE {Signed(a, [kind |-> "Block", command |-> [proposer |-> a, index |-> index],
                     time |-> 0, previous_quorum_certificate_hash |-> p,
                     round |-> r, author |-> a]) :
             a \in byzantine,
             r \in ({store.current_round}
                    \cup IF network.gaps THEN {store.current_round + 1} ELSE {})
                   \cap 1..network.rounds,
             p \in {store.highest_quorum_certificate_hash}}

\* Blocks with one fault: an unknown previous QC, a round that does not
\* increase, a signature that does not verify.
FaultyBlocks(store, index) ==
    {Signed(a, [kind |-> "Block", command |-> [proposer |-> a, index |-> index],
                time |-> 0, previous_quorum_certificate_hash |-> p,
                round |-> store.highest_quorum_certificate_round, author |-> a]) :
        a \in byzantine,
        p \in {initial_hash(store.epoch_id + 1), store.highest_quorum_certificate_hash}}
    \cup {BadlySigned(
             Signed(a, [kind |-> "Block", command |-> [proposer |-> a, index |-> index],
                        time |-> 0,
                        previous_quorum_certificate_hash |-> store.initial_hash,
                        round |-> store.current_round, author |-> a])) : a \in byzantine}

\* Author a has signed or will sign the vote of the given fields: honest
\* authors only ever signed the votes they cast.
CanSign(a, fields) ==
    LET vote == Vote_(fields.epoch_id, fields.round, fields.certified_block_hash,
                      fields.state, fields.committed_state, a)
    IN \/ a \in byzantine
       \/ (a \in Replicas /\ \E v \in votes_cast[a] : v.value = vote)

\* The pair of author a in the votes of a QC of the given fields; the
\* signature of an author that did not sign is over another hash.
AdversaryPair(a, fields) ==
    LET vote == Vote_(fields.epoch_id, fields.round, fields.certified_block_hash,
                      fields.state, fields.committed_state, a)
    IN <<a, <<a, IF CanSign(a, fields) THEN hash(vote) ELSE hash(vote) + 1>>>>

Authors(store) == DOMAIN store.configuration.voting_rights

\* The authors of a set in increasing order.
RECURSIVE Sorted(_)
Sorted(set) ==
    IF set = {} THEN <<>>
    ELSE LET m == CHOOSE x \in set : \A y \in set : x <= y
         IN <<m>> \o Sorted(set \ {m})

\* The votes of a QC: those of every author that can sign when they make
\* a quorum, else one byzantine vote repeated up to the quorum threshold.
VoteLists(store, fields) ==
    LET signers == {a \in Authors(store) : CanSign(a, fields)}
        all == Sorted(signers)
    IN IF Len(all) >= quorum_threshold(store.configuration)
       THEN {[i \in 1..Len(all) |-> AdversaryPair(all[i], fields)]}
       ELSE {[i \in 1..quorum_threshold(store.configuration) |-> AdversaryPair(a, fields)] :
                a \in byzantine}

\* One byzantine vote repeated up to the quorum threshold.
RepeatedVotes(store, fields) ==
    LET a == CHOOSE x \in byzantine : TRUE
    IN [i \in 1..quorum_threshold(store.configuration) |-> AdversaryPair(a, fields)]

\* Lists of votes that make no quorum: one byzantine vote alone, and the
\* votes of every author, forged for those that did not vote.
FaultyVoteLists(store, fields) ==
    {<<AdversaryPair(a, fields)>> : a \in byzantine}
    \cup {[i \in 1..Cardinality(Authors(store)) |->
              AdversaryPair(Sorted(Authors(store))[i], fields)]}

QcRecord(fields, votes, author) ==
    Signed(author, [kind |-> "QuorumCertificate", epoch_id |-> fields.epoch_id,
                    round |-> fields.round,
                    certified_block_hash |-> fields.certified_block_hash,
                    state |-> fields.state, committed_state |-> fields.committed_state,
                    votes |-> votes, author |-> author])

QcFields(context, store, block_hash) ==
    [epoch_id |-> store.epoch_id, round |-> store.blocks[block_hash].value.round,
     certified_block_hash |-> block_hash,
     state |-> ExpectedState(context, store, store.blocks[block_hash]),
     committed_state |-> vote_committed_state(store, block_hash)]

\* Single faults in the fields of a QC or of a vote.
FaultyFields(fields) ==
    {[fields EXCEPT !.epoch_id = @ + 1],
     [fields EXCEPT !.round = @ + 1],
     [fields EXCEPT !.certified_block_hash = @ + 1],
     [fields EXCEPT !.state = OtherState(@)],
     [fields EXCEPT !.committed_state = IF @ = None THEN Some(fields.state) ELSE None]}

AdversaryQuorumCertificates(context, store) ==
    UNION {LET fields == QcFields(context, store, h)
               author == store.blocks[h].value.author
           IN IF author \notin byzantine THEN {}
              ELSE {QcRecord(fields, votes, author) : votes \in VoteLists(store, fields)}
           : h \in DOMAIN store.blocks}

\* The blocks of byzantine authors that no stored QC certifies yet.
Uncertified(store) ==
    {h \in DOMAIN store.blocks :
        /\ store.blocks[h].value.author \in byzantine
        /\ \A q \in Range(store.quorum_certificates) : q.value.certified_block_hash # h}

\* QCs with one fault, for the uncertified blocks of the highest round.
FaultyQuorumCertificates(context, store) ==
    UNION {LET fields == QcFields(context, store, h)
               author == store.blocks[h].value.author
               votes == RepeatedVotes(store, fields)
           IN {QcRecord(f, RepeatedVotes(store, f), author) : f \in FaultyFields(fields)}
              \cup {QcRecord(fields, v, author) : v \in FaultyVoteLists(store, fields)}
              \cup {QcRecord(fields, votes, CHOOSE a \in Authors(store) : a # author),
                    BadlySigned(QcRecord(fields, votes, author))}
           : h \in {x \in Uncertified(store) :
                       \A y \in Uncertified(store) :
                          store.blocks[y].value.round <= store.blocks[x].value.round}}

VoteRecord(fields, author) ==
    Signed(author, Vote_(fields.epoch_id, fields.round, fields.certified_block_hash,
                         fields.state, fields.committed_state, author))

\* Votes for the blocks of the current round.
AdversaryVotes(context, store) ==
    UNION {LET fields == QcFields(context, store, h)
           IN IF store.blocks[h].value.round # store.current_round THEN {}
              ELSE {VoteRecord(fields, a) : a \in byzantine}
           : h \in DOMAIN store.blocks}

\* Votes with one fault for the blocks of the current round, and votes
\* for the blocks of the other rounds.
FaultyVotes(context, store) ==
    UNION {LET fields == QcFields(context, store, h)
           IN IF store.blocks[h].value.round # store.current_round
              THEN {VoteRecord(fields, a) : a \in byzantine}
              ELSE {VoteRecord(f, a) : a \in byzantine, f \in FaultyFields(fields)}
                   \cup {BadlySigned(VoteRecord(fields, a)) : a \in byzantine}
           : h \in DOMAIN store.blocks}

TimeoutRecord(epoch_id, round, highest_certified_block_round, author) ==
    Signed(author, [kind |-> "Timeout", epoch_id |-> epoch_id, round |-> round,
                    highest_certified_block_round |-> highest_certified_block_round,
                    author |-> author])

AdversaryTimeouts(store) ==
    {TimeoutRecord(store.epoch_id, store.current_round, hcbr, a) :
        a \in byzantine, hcbr \in {store.highest_quorum_certificate_round}}

FaultyTimeouts(store) ==
    UNION {{TimeoutRecord(store.epoch_id + 1, store.current_round, 0, a),
            TimeoutRecord(store.epoch_id, store.current_round + 1, 0, a),
            TimeoutRecord(store.epoch_id, store.current_round,
                          store.highest_quorum_certificate_round + 1, a),
            BadlySigned(TimeoutRecord(store.epoch_id, store.current_round, 0, a))}
           : a \in byzantine}

\* What the network replays to replica n: the replicas are partitioned, and
\* n receives again its own highest QC, proposal, votes and timeouts.
Replayed(n) ==
    LET store == nodes[n].record_store
        hqc == highest_quorum_certificate(store)
    IN (IF IsSome(hqc) THEN {Unwrap(hqc)} ELSE {})
       \cup (IF IsSome(store.current_proposed_block)
             THEN {store.blocks[Unwrap(store.current_proposed_block)]} ELSE {})
       \cup Range(store.current_votes) \cup timeouts(store)

\* Well-formed records for replica n, and records that it must reject.
BlocksFor(n) ==
    AdversaryBlocks(nodes[n].record_store, n) \cup {r \in Replayed(n) : r.value.kind = "Block"}

QuorumCertificatesFor(n) ==
    AdversaryQuorumCertificates(contexts[n], nodes[n].record_store)
    \cup {r \in Replayed(n) : r.value.kind = "QuorumCertificate"}

VotesFor(n) ==
    AdversaryVotes(contexts[n], nodes[n].record_store)
    \cup {r \in Replayed(n) : r.value.kind = "Vote"}

TimeoutsFor(n) ==
    AdversaryTimeouts(nodes[n].record_store)
    \cup {r \in Replayed(n) : r.value.kind = "Timeout"}

FaultyRecordsFor(n) ==
    LET store == nodes[n].record_store
    IN FaultyBlocks(store, n) \cup FaultyQuorumCertificates(contexts[n], store)
       \cup FaultyVotes(contexts[n], store) \cup FaultyTimeouts(store)

RecordsFor(n) ==
    BlocksFor(n) \cup QuorumCertificatesFor(n) \cup VotesFor(n) \cup TimeoutsFor(n)
    \cup FaultyRecordsFor(n)

\* The records that the network sends to replica n: faulty ones up to the
\* round network.faults of the replica.
RecordsSentTo(n) ==
    BlocksFor(n) \cup QuorumCertificatesFor(n) \cup VotesFor(n) \cup TimeoutsFor(n)
    \cup IF nodes[n].record_store.current_round <= network.faults
         THEN FaultyRecordsFor(n) ELSE {}

\* A chain of blocks of the byzantine authors, each with its QC, that
\* extends the highest QC of a store round after round.
RECURSIVE Chain(_, _, _)
ChainCertified(b, q, r, index) ==
    <<b, q>> \o Chain(r.store, r.context, index)

ChainExtended(b, r, index) ==
    LET q == CHOOSE x \in AdversaryQuorumCertificates(r.context, r.store) :
                x.value.certified_block_hash = hash(b.value)
    IN ChainCertified(b, q, insert_network_record(r.store, r.context, q), index)

Chain(store, context, index) ==
    LET blocks == {b \in AdversaryBlocks(store, index) :
                      b.value.round = store.current_round}
    IN IF blocks = {} THEN <<>>
       ELSE LET b == CHOOSE x \in blocks : TRUE
            IN ChainExtended(b, insert_network_record(store, context, b), index)

(***************************************************************************)
(* The state machine.                                                      *)
(***************************************************************************)
\* NodeConfig of the replicas: gamma is the exponent of the round durations,
\* lambda the query-all coefficient in percent.
NodeConfig ==
    [target_commit_interval |-> 1, delta |-> 1, gamma |-> 2, lambda |-> 50]

\* GlobalTime::to_node_time and GlobalTime::from_node_time
to_node_time(global_time, startup_time) == global_time - startup_time

from_node_time(node_time, startup_time) == node_time + startup_time

\* Simulator::new: every node starts at time 1 (a network delay of 0) with
\* an UpdateTimerEvent at its NodeTime 0. pending_events holds the
\* UpdateTimerEvents in the order of their creation stamps; the events of
\* the network are those that the network delivers.
SimulatorNew(replicas) ==
    [clock |-> 0,
     startup_time |-> [n \in replicas |-> 1],
     ignore_scheduled_updates_until |-> [n \in replicas |-> 1 - 1],
     pending_events |-> [i \in 1..Cardinality(replicas) |->
                           [scheduled_time |-> from_node_time(0, 1),
                            author |-> Sorted(replicas)[i]]]]

\* The driver of the simulated replicas: none of the two CoreDrivers runs.
NoDriver == [crate |-> "simulator", pc |-> "select", storage |-> EmptyMap,
             actions |-> None, sent |-> <<>>]

InitWith(replicas, num_nodes, faulty, table, profile) ==
    /\ byzantine = faulty
    /\ simulator = SimulatorNew(replicas)
    /\ call = None
    /\ driver = NoDriver
    /\ network = profile
    /\ contexts = [n \in replicas |-> SimulatedContextNew(n, num_nodes, MaxCommandPerEpoch)]
    /\ nodes = [n \in replicas |->
                   make_initial_state(SimulatedContextNew(n, num_nodes, MaxCommandPerEpoch),
                                      NodeConfig, 0)]
    /\ clock = [n \in replicas |-> 0]
    /\ crashed = [n \in replicas |-> FALSE]
    /\ leaders = table
    /\ delivered = [n \in replicas |-> <<>>]
    /\ votes_cast = [n \in replicas |-> {}]

\* pick_author seeded by the hash of a round is a fixed function of the
\* round: here the authors take turns, the k-th of them after the first
\* leading round 1.
LeaderTable(authors, k) ==
    [r \in 1..(MaxRound + 1) |-> Sorted(authors)[((r + k) % Cardinality(authors)) + 1]]

\* One replica, author 0, of two authors; author 1 is byzantine and leads
\* the odd rounds. Time passes, rounds may be skipped, and every record
\* that arrives is well formed.
Init ==
    InitWith({0}, 2, {1}, LeaderTable({0, 1}, 0),
             [rounds |-> MaxRound, clock |-> MaxClock, gaps |-> TRUE, faults |-> 0,
              epochs |-> MaxEpoch, sync |-> FALSE])

\* The same replica without time, one round less, where records with one
\* fault arrive at every round.
InitFaults ==
    InitWith({0}, 2, {1}, LeaderTable({0, 1}, 0),
             [rounds |-> MaxRound - 1, clock |-> 0, gaps |-> TRUE,
              faults |-> MaxRound - 1, epochs |-> MaxEpoch, sync |-> FALSE])

\* Two replicas, authors 0 and 1, of four authors; author 3 is byzantine
\* and leads round 1, author 2 is silent.
InitSafety ==
    InitWith({0, 1}, 4, {3}, LeaderTable({0, 1, 2, 3}, 2),
             [rounds |-> MaxRound - 1, clock |-> 0, gaps |-> FALSE, faults |-> 0,
              epochs |-> MaxEpoch, sync |-> FALSE])

\* A replica takes steps until it panics, and within the bounds on rounds
\* and epochs.
Active(n) ==
    /\ ~crashed[n]
    /\ nodes[n].record_store.current_round <= network.rounds
    /\ nodes[n].epoch_id < network.epochs

\* The result r of a handler of replica n becomes the state of n: a panic
\* stops the replica where it is.
Updated(n, r, clk, votes) ==
    /\ nodes' = [nodes EXCEPT ![n] = IF r.panic THEN @ ELSE r.node]
    /\ contexts' = [contexts EXCEPT ![n] = IF r.panic THEN @ ELSE r.context]
    /\ crashed' = [crashed EXCEPT ![n] = r.panic]
    /\ clock' = [clock EXCEPT ![n] = clk]
    /\ delivered' = [delivered EXCEPT ![n] = @ \o r.delivered]
    /\ votes_cast' = [votes_cast EXCEPT ![n] = @ \cup votes]
    /\ UNCHANGED <<leaders, byzantine, network>>

Becomes(n, r, clk, votes) == Updated(n, r, clk, votes) /\ UNCHANGED call

\* The iteration orders of the current_votes HashMap of a store.
Orders(store) ==
    LET authors == DOMAIN store.current_votes
        k == Cardinality(authors)
    IN {o \in [1..k -> authors] : \A i, j \in 1..k : i # j => o[i] # o[j]}

\* update_node, for every iteration order of the votes.
UpdateNodeOrders(voted, clk) ==
    {update_node_commits(voted, clk, order) : order \in Orders(voted.node.record_store)}

UpdateNodeResults(r, clk) == UpdateNodeOrders(update_node_votes(r.node, r.context, clk), clk)

\* Simulator::loop_until, UpdateTimerEvent: update_node at the time of the
\* event, whenever the network lets the timer of the replica fire.
UpdateTimerEvent(n) ==
    /\ Active(n)
    /\ UNCHANGED <<simulator, driver>>
    /\ \E clk \in clock[n]..network.clock :
          \E r \in UpdateNodeResults([node |-> nodes[n], context |-> contexts[n]], clk) :
             Becomes(n, r, clk, r.votes)

EmptyNotification(epoch_id) ==
    [current_epoch |-> epoch_id, highest_commit_certificate |-> None,
     highest_quorum_certificate |-> None, timeouts |-> <<>>, current_vote |-> None,
     proposed_block |-> None]

\* Notifications that carry a QC with one fault, as highest commit
\* certificate, alone or with a well-formed highest QC, and as highest QC.
FaultyNotificationsFor(n) ==
    LET e == nodes[n].epoch_id
        faulty == FaultyQuorumCertificates(contexts[n], nodes[n].record_store)
    IN IF nodes[n].record_store.current_round > network.faults THEN {}
       ELSE {[EmptyNotification(e) EXCEPT !.highest_commit_certificate = Some(f),
                                          !.highest_quorum_certificate = q] :
                f \in faulty,
                q \in {None} \cup {Some(r) : r \in QuorumCertificatesFor(n)}}
            \cup {[EmptyNotification(e) EXCEPT !.highest_quorum_certificate = Some(f)] :
                     f \in faulty}

\* Notifications that carry one well-formed record under the epoch of the
\* replica, and notifications of the next epoch.
NotificationsFor(n) ==
    LET e == nodes[n].epoch_id
    IN {[EmptyNotification(e) EXCEPT !.highest_commit_certificate = Some(r)] :
           r \in QuorumCertificatesFor(n)}
       \cup {[EmptyNotification(e) EXCEPT !.highest_quorum_certificate = Some(r)] :
                r \in QuorumCertificatesFor(n)}
       \cup {[EmptyNotification(x) EXCEPT !.proposed_block = Some(r)] :
                r \in AdversaryBlocks(nodes[n].record_store, n), x \in {e, e + 1}}
       \cup {[EmptyNotification(e) EXCEPT !.timeouts = <<r>>] : r \in TimeoutsFor(n)}
       \cup {[EmptyNotification(e) EXCEPT !.current_vote = Some(r)] : r \in VotesFor(n)}
       \cup FaultyNotificationsFor(n)

\* Simulator::loop_until, DataSyncNotifyEvent: handle_notification, then
\* update_node.
DataSyncNotifyEvent(n) ==
    /\ Active(n)
    /\ UNCHANGED <<simulator, driver>>
    /\ \E notification \in NotificationsFor(n) :
          \E r \in UpdateNodeResults(
                       handle_notification(nodes[n], contexts[n], notification),
                       clock[n]) :
             Becomes(n, r, clock[n], r.votes)

\* CoreDriver::run, DataSyncRequest: the responses that the other replicas
\* make of the request of replica n.
PeerResponsesFor(n) ==
    IF ~network.sync THEN {}
    ELSE
    {handle_request(nodes[p], create_request_internal(nodes[n])).response :
        p \in {q \in Replicas \ {n} :
                  ~handle_request(nodes[q], create_request_internal(nodes[n])).panic}}

\* Responses of one batch with one record; responses that start with a
\* batch of the previous epoch and end with a batch for the next epoch; and
\* the responses with a chain, alone or followed by a batch for the next
\* epoch.
ResponsesFor(n) ==
    LET e == nodes[n].epoch_id
        next == RecordStoreStateNew(initial_hash(e + 1), 0, e + 1,
                                    nodes[n].record_store.configuration)
        b == CHOOSE x \in AdversaryBlocks(next, n) : x.value.round = 1
        chain == Chain(nodes[n].record_store, contexts[n], n)
    IN {[current_epoch |-> e, records |-> <<<<e, <<r>>>>>>] : r \in RecordsSentTo(n)}
       \cup {[current_epoch |-> e + 1,
              records |-> <<<<e - 1, <<r>>>>, <<e, <<r>>>>, <<e + 1, <<b>>>>>>] :
                r \in QuorumCertificatesFor(n)}
       \cup {[current_epoch |-> e, records |-> <<<<e, chain>>>>],
             [current_epoch |-> e + 1, records |-> <<<<e, chain>>, <<e + 1, <<b>>>>>>]}
       \cup PeerResponsesFor(n)

\* The update_node that follows handle_response, unless it panicked.
ResponseHandled(n, h) ==
    IF h.panic
    THEN Becomes(n, h, clock[n], {})
    ELSE \E r \in UpdateNodeResults(h, clock[n]) :
            Becomes(n, [r EXCEPT !.delivered = h.delivered \o @], clock[n], r.votes)

\* Simulator::loop_until, DataSyncResponseEvent: handle_response, then
\* update_node.
DataSyncResponseEvent(n) ==
    /\ Active(n)
    /\ UNCHANGED <<simulator, driver>>
    /\ \E response \in ResponsesFor(n) :
          ResponseHandled(n, handle_response(nodes[n], contexts[n], response, clock[n]))

Next ==
    \/ \E n \in Replicas : UpdateTimerEvent(n)
    \/ \E n \in Replicas : DataSyncNotifyEvent(n)
    \/ \E n \in Replicas : DataSyncResponseEvent(n)

Spec == Init /\ [][Next]_vars

SpecFaults == InitFaults /\ [][Next]_vars

SpecSafety == InitSafety /\ [][Next]_vars

\* Two replicas, authors 0 and 1, of four authors, that answer the requests
\* of one another; author 3 is byzantine and leads round 1, author 2 is
\* silent.
InitSync ==
    InitWith({0, 1}, 4, {3}, LeaderTable({0, 1, 2, 3}, 2),
             [rounds |-> MaxRound - 2, clock |-> 0, gaps |-> FALSE, faults |-> 0,
              epochs |-> MaxEpoch, sync |-> TRUE])

SpecSync == InitSync /\ [][Next]_vars

\* One replica, author 0, of two authors whose contexts start a new epoch
\* at every command; author 1 is byzantine and leads round 1.
InitEpochs ==
    /\ byzantine = {1}
    /\ network = [rounds |-> MaxRound, clock |-> 0, gaps |-> FALSE, faults |-> 0,
                  epochs |-> MaxEpoch + 1, sync |-> FALSE]
    /\ simulator = SimulatorNew({0})
    /\ call = None
    /\ driver = NoDriver
    /\ contexts = [n \in {0} |-> SimulatedContextNew(n, 2, 1)]
    /\ nodes = [n \in {0} |-> make_initial_state(SimulatedContextNew(n, 2, 1),
                                                 NodeConfig, 0)]
    /\ clock = [n \in {0} |-> 0]
    /\ crashed = [n \in {0} |-> FALSE]
    /\ leaders = LeaderTable({0, 1}, 0)
    /\ delivered = [n \in {0} |-> <<>>]
    /\ votes_cast = [n \in {0} |-> {}]

SpecEpochs == InitEpochs /\ [][Next]_vars

(***************************************************************************)
(* bft-lib: the timers of the simulator.                                   *)
(***************************************************************************)
\* The most events that wait in pending_events.
MaxEvents == 3

\* BinaryHeap::pop with the order of ScheduledEvent: the index of the event
\* of the least scheduled time, and of the least creation stamp among those.
NextEvent(sim) ==
    CHOOSE i \in DOMAIN sim.pending_events :
       \A j \in DOMAIN sim.pending_events :
          \/ sim.pending_events[i].scheduled_time < sim.pending_events[j].scheduled_time
          \/ /\ sim.pending_events[i].scheduled_time = sim.pending_events[j].scheduled_time
             /\ i <= j

\* Simulator::loop_until, the event of index i is popped: events scheduled
\* in the past do not move the clock.
Popped(sim, i) ==
    [sim EXCEPT
       !.clock = Max(sim.pending_events[i].scheduled_time, @),
       !.pending_events = [k \in 1..(Len(@) - 1) |-> IF k < i THEN @[k] ELSE @[k + 1]]]

\* Simulator::process_node_actions that sets the watermark at the time of
\* the update that it schedules.
ProcessNodeActionsCancellingAll(sim, clk, author, actions) ==
    LET new_scheduled_time ==
            Max(from_node_time(actions.next_scheduled_update, sim.startup_time[author]),
                clk + 1)
    IN [sim EXCEPT
          !.ignore_scheduled_updates_until[author] = new_scheduled_time,
          !.pending_events = Append(@, [scheduled_time |-> new_scheduled_time,
                                        author |-> author])]

\* Simulator::process_node_actions, the timer of the node: the next update
\* is scheduled strictly after clk, the watermark is set right before it,
\* and no event is removed.
process_node_actions(sim, clk, author, actions) ==
    LET new_scheduled_time ==
            Max(from_node_time(actions.next_scheduled_update, sim.startup_time[author]),
                clk + 1)
    IN [sim EXCEPT
          !.ignore_scheduled_updates_until[author] = new_scheduled_time - 1,
          !.pending_events = Append(@, [scheduled_time |-> new_scheduled_time,
                                        author |-> author])]

\* The result r of update_node at the global time clk becomes the state of
\* replica n, and the simulator sim processes its actions.
Processed(n, r, sim, clk, delivered_before) ==
    /\ Becomes(n, [r EXCEPT !.delivered = delivered_before \o @],
               to_node_time(clk, sim.startup_time[n]), r.votes)
    /\ simulator' = IF r.panic THEN sim
                    ELSE process_node_actions(sim, clk, n, r.actions)
    /\ UNCHANGED driver

\* Simulator::loop_until pops an UpdateTimerEvent, within max_clock: the
\* event is ignored at a time up to the watermark of its node, and calls
\* update_node otherwise.
TimerPopped ==
    /\ simulator.pending_events # <<>>
    /\ LET i == NextEvent(simulator)
           n == simulator.pending_events[i].author
           sim == Popped(simulator, i)
       IN /\ simulator.pending_events[i].scheduled_time <= network.clock
          /\ Active(n)
          /\ IF sim.clock <= simulator.ignore_scheduled_updates_until[n]
             THEN /\ simulator' = sim
                  /\ UNCHANGED <<nodes, contexts, clock, crashed, leaders, delivered,
                                 votes_cast, byzantine, network, driver, call>>
             ELSE \E r \in UpdateNodeResults(
                               [node |-> nodes[n], context |-> contexts[n]],
                               to_node_time(sim.clock, sim.startup_time[n])) :
                     Processed(n, r, sim, sim.clock, <<>>)

\* The times at which an event of the network for replica n may be popped:
\* after the replica started, within max_clock, and once every
\* UpdateTimerEvent scheduled up to that time is popped.
NetworkTimes(n) ==
    {t \in Max(simulator.clock, simulator.startup_time[n])..network.clock :
        /\ Len(simulator.pending_events) < MaxEvents
        /\ \A i \in DOMAIN simulator.pending_events :
              simulator.pending_events[i].scheduled_time > t}

\* Simulator::loop_until pops a DataSyncNotifyEvent: handle_notification,
\* update_node at the time of the event, then process_node_actions.
NotifyPopped(n) ==
    /\ Active(n)
    /\ \E t \in NetworkTimes(n), notification \in NotificationsFor(n) :
          \E r \in UpdateNodeResults(
                       handle_notification(nodes[n], contexts[n], notification),
                       to_node_time(t, simulator.startup_time[n])) :
             Processed(n, r, [simulator EXCEPT !.clock = t], t, <<>>)

\* Simulator::loop_until pops a DataSyncResponseEvent: handle_response,
\* update_node at the time of the event, then process_node_actions.
ResponsePopped(n) ==
    /\ Active(n)
    /\ \E t \in NetworkTimes(n), response \in ResponsesFor(n) :
          LET h == handle_response(nodes[n], contexts[n], response,
                                   to_node_time(t, simulator.startup_time[n]))
              sim == [simulator EXCEPT !.clock = t]
          IN IF h.panic
             THEN /\ Becomes(n, h, to_node_time(t, simulator.startup_time[n]), {})
                  /\ simulator' = sim
                  /\ UNCHANGED driver
             ELSE \E r \in UpdateNodeResults(h, to_node_time(t, simulator.startup_time[n])) :
                     Processed(n, r, sim, t, h.delivered)

NextTimers ==
    \/ TimerPopped
    \/ \E n \in Replicas : NotifyPopped(n)
    \/ \E n \in Replicas : ResponsePopped(n)

\* The NodeConfig of the replica whose timers are simulated: its rounds
\* last longer than a unit of time.
TimersConfig ==
    [target_commit_interval |-> 3, delta |-> 2, gamma |-> 2, lambda |-> 50]

\* One replica, author 0, of two authors; author 1 is byzantine and leads
\* the odd rounds. The simulator runs the timers until max_clock.
InitTimers ==
    /\ byzantine = {1}
    /\ network = [rounds |-> MaxRound - 2, clock |-> MaxClock + 3, gaps |-> FALSE,
                  faults |-> 0, epochs |-> MaxEpoch, sync |-> FALSE]
    /\ simulator = SimulatorNew({0})
    /\ call = None
    /\ driver = NoDriver
    /\ contexts = [n \in {0} |-> SimulatedContextNew(n, 2, MaxCommandPerEpoch)]
    /\ nodes = [n \in {0} |->
                   make_initial_state(SimulatedContextNew(n, 2, MaxCommandPerEpoch),
                                      TimersConfig, 0)]
    /\ clock = [n \in {0} |-> 0]
    /\ crashed = [n \in {0} |-> FALSE]
    /\ leaders = LeaderTable({0, 1}, 0)
    /\ delivered = [n \in {0} |-> <<>>]
    /\ votes_cast = [n \in {0} |-> {}]

SpecTimers == InitTimers /\ [][NextTimers]_vars

(***************************************************************************)
(* Honest replicas that notify one another.                                *)
(***************************************************************************)
\* A notification that leaves out the vote of the replica.
PeerNotificationWithoutVote(p) ==
    [create_notification(nodes[p], contexts[p]) EXCEPT !.timeouts = Listed(@),
                                                       !.current_vote = None]

\* The notification that replica p makes of its state.
PeerNotification(p) ==
    [create_notification(nodes[p], contexts[p]) EXCEPT !.timeouts = Listed(@)]

\* Simulator::loop_until, DataSyncNotifyEvent from replica p to replica n:
\* handle_notification, then update_node.
PeerNotifyEvent(p, n) ==
    /\ Active(n)
    /\ p # n
    /\ \E r \in UpdateNodeResults(
                 handle_notification(nodes[n], contexts[n], PeerNotification(p)),
                 clock[n]) :
          Becomes(n, r, clock[n], r.votes)
    /\ UNCHANGED <<simulator, driver>>

\* CoreDriver::run, DataSyncRequest then DataSyncResponse: replica p answers
\* the request of replica n, that handles the response.
PeerResponseEvent(p, n) ==
    /\ Active(n)
    /\ p # n
    /\ ~handle_request(nodes[p], create_request_internal(nodes[n])).panic
    /\ ResponseHandled(n, handle_response(
                              nodes[n], contexts[n],
                              handle_request(nodes[p],
                                             create_request_internal(nodes[n])).response,
                              clock[n]))
    /\ UNCHANGED <<simulator, driver>>

\* The time of the timeout of the active round of replica n: update_pacemaker
\* schedules the next update no later.
timeout_deadline(n) ==
    nodes[n].pacemaker.active_round_start_time + nodes[n].pacemaker.active_round_duration

\* The times at which the timer of replica n may fire: the network lets the
\* clock of a replica reach the deadline of its active round.
TimerTimes(n) == clock[n]..Max(network.clock, timeout_deadline(n))

\* Simulator::loop_until, UpdateTimerEvent, scheduled by process_node_actions
\* at next_scheduled_update: update_node at the time of the event.
ScheduledTimerEvent(n) ==
    /\ Active(n)
    /\ UNCHANGED <<simulator, driver>>
    /\ \E clk \in TimerTimes(n) :
          \E r \in UpdateNodeResults([node |-> nodes[n], context |-> contexts[n]], clk) :
             Becomes(n, r, clk, r.votes)

NextHonest ==
    \/ \E n \in Replicas : ScheduledTimerEvent(n)
    \/ \E p, n \in Replicas : PeerNotifyEvent(p, n)
    \/ \E p, n \in Replicas : PeerResponseEvent(p, n)

HonestReplicas == {0, 1, 2}

\* The result r of a handler of replica n changes the state of n.
Changes(n, r, clk, votes) ==
    \/ r.panic # crashed[n]
    \/ clk # clock[n]
    \/ r.delivered # <<>>
    \/ ~(votes \subseteq votes_cast[n])
    \/ ~r.panic /\ (r.node # nodes[n] \/ r.context # contexts[n])

\* An event of the simulator is pending: it changes the state of its
\* replica. This is the enabling condition of <<NextHonest>>_vars, written
\* out event by event.
TimerPending(n, times) ==
    /\ Active(n)
    /\ \E clk \in times :
          \E r \in UpdateNodeResults([node |-> nodes[n], context |-> contexts[n]], clk) :
             Changes(n, r, clk, r.votes)

NotifyPending(p, n) ==
    /\ Active(n)
    /\ p # n
    /\ \E r \in UpdateNodeResults(
                 handle_notification(nodes[n], contexts[n], PeerNotification(p)),
                 clock[n]) :
          Changes(n, r, clock[n], r.votes)

ResponsePending(p, n) ==
    /\ Active(n)
    /\ p # n
    /\ ~handle_request(nodes[p], create_request_internal(nodes[n])).panic
    /\ LET h == handle_response(
                    nodes[n], contexts[n],
                    handle_request(nodes[p], create_request_internal(nodes[n])).response,
                    clock[n])
       IN IF h.panic
          THEN Changes(n, h, clock[n], {})
          ELSE \E r \in UpdateNodeResults(h, clock[n]) :
                  Changes(n, [r EXCEPT !.delivered = h.delivered \o @], clock[n], r.votes)

HonestPending ==
    \/ \E n \in HonestReplicas : TimerPending(n, TimerTimes(n))
    \/ \E p, n \in HonestReplicas : NotifyPending(p, n)
    \/ \E p, n \in HonestReplicas : ResponsePending(p, n)

\* Simulator::loop_until goes on while an event is pending: a timer that
\* moves the clock of a replica, or a message that changes its state. This
\* is weak fairness of NextHonest, with its enabling condition written as
\* HonestPending.
FairHonest == ([]<>(~HonestPending)) \/ ([]<><<NextHonest>>_vars)

\* A step of NextHonest is taken only when an event is pending.
StepsArePending == [][HonestPending]_vars

\* The honest replicas, authors 0, 1 and 2, of four authors of weight 1;
\* author 3, that leads round 1, is silent, and nobody forges a record.
InitSilentLeader ==
    InitWith(HonestReplicas, 4, {}, LeaderTable({0, 1, 2, 3}, 2),
             [rounds |-> 1, clock |-> MaxClock, gaps |-> FALSE, faults |-> 0,
              epochs |-> MaxEpoch, sync |-> FALSE])

SpecSilentLeader == InitSilentLeader /\ [][NextHonest]_vars /\ FairHonest

\* The same replicas when no timer fires late enough for a round to time
\* out: the clocks stay within network.clock.
NextHappy ==
    \/ \E n \in Replicas : UpdateTimerEvent(n)
    \/ \E p, n \in Replicas : PeerNotifyEvent(p, n)
    \/ \E p, n \in Replicas : PeerResponseEvent(p, n)

HappyPending ==
    \/ \E n \in HonestReplicas : TimerPending(n, clock[n]..network.clock)
    \/ \E p, n \in HonestReplicas : NotifyPending(p, n)
    \/ \E p, n \in HonestReplicas : ResponsePending(p, n)

\* Weak fairness of NextHappy, with its enabling condition written as
\* HappyPending: every message is eventually delivered.
FairHappy == ([]<>(~HappyPending)) \/ ([]<><<NextHappy>>_vars)

\* Three honest replicas, the three authors of weight 1, that take turns as
\* leaders from author 0 at round 1; the clocks stay at 0, before the
\* timeout of any round.
InitHappy ==
    InitWith(HonestReplicas, 3, {}, LeaderTable(HonestReplicas, 2),
             [rounds |-> 3, clock |-> 0, gaps |-> FALSE, faults |-> 0,
              epochs |-> MaxEpoch, sync |-> FALSE])

SpecHappy == InitHappy /\ [][NextHappy]_vars /\ FairHappy

(***************************************************************************)
(* Honest replicas and a byzantine author that copies the proposal of the  *)
(* leader.                                                                 *)
(***************************************************************************)
\* The blocks that the byzantine authors make of the proposed block of a
\* store: the same command at the same time, hence the same state.
CopiedBlocks(store) ==
    IF store.current_proposed_block = None THEN {}
    ELSE {Signed(a, [store.blocks[Unwrap(store.current_proposed_block)].value
                        EXCEPT !.author = a]) : a \in byzantine}

\* The notifications of the byzantine authors to replica n: a copy of the
\* proposed block, or a vote for a block of the current round.
EquivocationsFor(n) ==
    LET e == nodes[n].epoch_id
    IN {[EmptyNotification(e) EXCEPT !.proposed_block = Some(r)] :
           r \in CopiedBlocks(nodes[n].record_store)}
       \cup {[EmptyNotification(e) EXCEPT !.current_vote = Some(r)] :
                r \in AdversaryVotes(contexts[n], nodes[n].record_store)}

\* Simulator::loop_until, DataSyncNotifyEvent from a byzantine author:
\* handle_notification, then update_node.
ByzantineNotifyEvent(n) ==
    /\ Active(n)
    /\ UNCHANGED <<simulator, driver>>
    /\ \E notification \in EquivocationsFor(n) :
          \E r \in UpdateNodeResults(
                       handle_notification(nodes[n], contexts[n], notification),
                       clock[n]) :
             Becomes(n, r, clock[n], r.votes)

NextElection ==
    \/ \E n \in Replicas : UpdateTimerEvent(n)
    \/ \E p, n \in Replicas : PeerNotifyEvent(p, n)
    \/ \E n \in Replicas : ByzantineNotifyEvent(n)

\* Three honest replicas, authors 0, 1 and 2, of four authors of weight 1;
\* author 3 is byzantine, and author 0 leads round 1.
InitElection ==
    InitWith(HonestReplicas, 4, {3}, LeaderTable({0, 1, 2, 3}, 3),
             [rounds |-> 1, clock |-> 0, gaps |-> FALSE, faults |-> 0,
              epochs |-> MaxEpoch, sync |-> FALSE])

SpecElection == InitElection /\ [][NextElection]_vars

(***************************************************************************)
(* The simulator: the route of a data-synchronization exchange. call holds *)
(* the exchange that is followed: its DataSyncRequestEvent as input, and   *)
(* as output the DataSyncResponseEvent, once the request is handled.       *)
(***************************************************************************)
DataSyncRequestEventOf(receiver, sender, request) ==
    [receiver |-> receiver, sender |-> sender, request |-> request]

DataSyncResponseEventOf(receiver, sender, response) ==
    [receiver |-> receiver, sender |-> sender, response |-> response]

\* Simulator::process_node_actions, "Schedule sending requests": the
\* requests of replica author to every other node, when it queries all.
QueryAllEvents(author, r) ==
    IF ~r.panic /\ r.actions.should_query_all
    THEN {DataSyncRequestEventOf(author, sender, create_request_internal(r.node)) :
             sender \in Replicas \ {author}}
    ELSE {}

\* Simulator::loop_until, DataSyncNotifyEvent: the request that
\* handle_notification returned, if any.
NotifyRequestEvents(receiver, sender, h) ==
    IF IsSome(h.request)
    THEN {DataSyncRequestEventOf(receiver, sender, Unwrap(h.request))}
    ELSE {}

\* schedule_network_event: at most one of the events is followed.
Followed(events) ==
    call' \in {None} \cup {[input |-> e, function |-> "handle_request", output |-> None] :
                              e \in events}

Scheduled(events) == IF call # None THEN UNCHANGED call ELSE Followed(events)

\* Simulator::loop_until, UpdateTimerEvent: update_node, then
\* process_node_actions.
RoutedTimerEvent(n) ==
    /\ Active(n)
    /\ UNCHANGED <<simulator, driver>>
    /\ \E clk \in clock[n]..network.clock :
          \E r \in UpdateNodeResults([node |-> nodes[n], context |-> contexts[n]], clk) :
             Updated(n, r, clk, r.votes) /\ Scheduled(QueryAllEvents(n, r))

\* Simulator::loop_until, DataSyncNotifyEvent {receiver, sender,
\* notification}: handle_notification by the receiver, update_node, the
\* request scheduled, then process_node_actions.
RoutedNotifyEvent(sender, receiver) ==
    /\ Active(receiver)
    /\ sender # receiver
    /\ UNCHANGED <<simulator, driver>>
    /\ LET h == handle_notification(nodes[receiver], contexts[receiver],
                                    PeerNotification(sender))
       IN \E r \in UpdateNodeResults(h, clock[receiver]) :
             /\ Updated(receiver, r, clock[receiver], r.votes)
             /\ Scheduled(NotifyRequestEvents(receiver, sender, h)
                          \cup QueryAllEvents(receiver, r))

\* The node whose handle_request answers a DataSyncRequestEvent.
RequestHandler(event) == event.receiver

\* Simulator::loop_until, DataSyncRequestEvent {receiver, sender, request}:
\* handle_request, then the DataSyncResponseEvent is scheduled.
RequestEventPopped ==
    /\ call # None
    /\ call.function = "handle_request"
    /\ call.output = None
    /\ LET event == call.input
           h == handle_request(nodes[RequestHandler(event)], event.request)
       IN IF h.panic
          THEN /\ crashed' = [crashed EXCEPT ![RequestHandler(event)] = TRUE]
               /\ call' = None
          ELSE /\ call' = [call EXCEPT !.output = Some(DataSyncResponseEventOf(
                                                        event.receiver, event.sender,
                                                        h.response))]
               /\ UNCHANGED crashed
    /\ UNCHANGED <<nodes, contexts, clock, leaders, delivered, votes_cast, byzantine,
                   network, simulator, driver>>

\* Simulator::loop_until, DataSyncResponseEvent {receiver, response, ..}:
\* handle_response by the receiver, update_node, then process_node_actions.
ResponseEventPopped ==
    /\ call # None
    /\ call.function = "handle_request"
    /\ call.output # None
    /\ UNCHANGED <<simulator, driver>>
    /\ LET event == Unwrap(call.output)
           n == event.receiver
           h == handle_response(nodes[n], contexts[n], event.response, clock[n])
       IN IF crashed[n]
          THEN call' = None /\ UNCHANGED program
          ELSE IF h.panic
          THEN Updated(n, h, clock[n], {}) /\ call' = None
          ELSE \E r \in UpdateNodeResults(h, clock[n]) :
                  /\ Updated(n, [r EXCEPT !.delivered = h.delivered \o @], clock[n],
                             r.votes)
                  /\ Followed(QueryAllEvents(n, r))

NextRouted ==
    \/ \E n \in Replicas : RoutedTimerEvent(n)
    \/ \E sender, receiver \in Replicas : RoutedNotifyEvent(sender, receiver)
    \/ RequestEventPopped
    \/ ResponseEventPopped

\* Two honest replicas, the two authors of weight 1, that take turns as
\* leaders from author 0 at round 1.
InitRouted ==
    InitWith({0, 1}, 2, {}, LeaderTable({0, 1}, 1),
             [rounds |-> MaxRound - 2, clock |-> MaxClock, gaps |-> FALSE, faults |-> 0,
              epochs |-> MaxEpoch, sync |-> FALSE])

SpecRouted == InitRouted /\ [][NextRouted]_vars

(***************************************************************************)
(* bft-driver and consensus: CoreDriver.                                   *)
(***************************************************************************)
\* CoreDriver::spawn of one of the two crates: load_node reads the state
\* that the node saved when it started.
DriverNew(crate, node) ==
    [crate |-> crate, pc |-> "select", storage |-> save_node(node, EmptyMap),
     actions |-> None, sent |-> <<>>]

\* CoreDriver::transmit: to is None for a broadcast.
transmit(d, message, to) ==
    [d EXCEPT !.sent = Append(@, [message |-> message, to |-> to])]

DataSyncNotificationMessage(notification) ==
    [type |-> "DataSyncNotification", body |-> notification]

DataSyncRequestMessage(request) == [type |-> "DataSyncRequest", body |-> request]

DataSyncResponseMessage(response) == [type |-> "DataSyncResponse", body |-> response]

\* The outcomes of the save_node that process_node_actions awaits: the
\* save_node of bft-driver returns a Result, the one that consensus awaits
\* returns no value (it takes the output of load_node for the node).
SaveOutcomes(crate) == IF crate = "bft-driver" THEN {TRUE, FALSE} ELSE {TRUE}

\* process_node_actions that goes on when save_node failed.
SaveNodeIgnoringFailure(d, node, ok) ==
    IF ok
    THEN [d EXCEPT !.storage = save_node(node, @), !.pc = "create_notification"]
    ELSE [d EXCEPT !.pc = "create_notification"]

\* process_node_actions, save_node: expect panics when save_node failed.
SaveNodeAwaited(d, node, ok) ==
    IF ok
    THEN [d EXCEPT !.storage = save_node(node, @), !.pc = "create_notification"]
    ELSE [d EXCEPT !.pc = "stopped"]

\* process_node_actions, the notifications: a broadcast, or one message
\* for every receiver of should_send.
NotificationsSent(d, message, receivers) ==
    IF d.actions[1].should_broadcast
    THEN transmit(d, message, None)
    ELSE [d EXCEPT !.sent = @ \o [i \in 1..Len(receivers) |->
                                     [message |-> message, to |-> Some(receivers[i])]]]

\* process_node_actions after save_node: create_notification, the
\* notifications, then the request when the node queries all.
ActionsProcessed(d, node, context) ==
    LET notified == NotificationsSent(
                        d, DataSyncNotificationMessage(create_notification(node, context)),
                        Listed(d.actions[1].should_send))
        queried == IF d.actions[1].should_query_all
                   THEN transmit(notified,
                                 DataSyncRequestMessage(create_request_internal(node)), None)
                   ELSE notified
    IN [queried EXCEPT !.pc = "select", !.actions = None]

\* CoreDriver::run: the result r of update_node becomes the state of
\* replica n, and the driver, that transmitted the messages of sent since it
\* selected the event, calls process_node_actions.
Selected(n, r, clk, delivered_before, sent) ==
    /\ Becomes(n, [r EXCEPT !.delivered = delivered_before \o @], clk, r.votes)
    /\ driver' = IF r.panic
                 THEN [driver EXCEPT !.pc = "stopped", !.sent = <<>>]
                 ELSE [driver EXCEPT !.pc = "save_node", !.sent = sent,
                                     !.actions = Some(r.actions)]
    /\ UNCHANGED simulator

\* CoreDriver::run, the timer: update_node at the local time.
DriverTimer(n) ==
    /\ driver.pc = "select"
    /\ Active(n)
    /\ \E clk \in clock[n]..network.clock :
          \E r \in UpdateNodeResults([node |-> nodes[n], context |-> contexts[n]], clk) :
             Selected(n, r, clk, <<>>, <<>>)

\* CoreDriver::run, DataSyncNotification: handle_notification, update_node,
\* the request to the sender, then process_node_actions.
DriverNotification(n) ==
    /\ driver.pc = "select"
    /\ Active(n)
    /\ \E clk \in clock[n]..network.clock, sender \in byzantine,
          notification \in NotificationsFor(n) :
          LET h == handle_notification(nodes[n], contexts[n], notification)
          IN \E r \in UpdateNodeResults(h, clk) :
                Selected(n, r, clk, <<>>,
                         IF IsSome(h.request)
                         THEN <<[message |-> DataSyncRequestMessage(Unwrap(h.request)),
                                 to |-> Some(sender)]>>
                         ELSE <<>>)

\* CoreDriver::run, DataSyncRequest: handle_request, and the response to the
\* sender.
DriverRequest(n) ==
    /\ driver.pc = "select"
    /\ Active(n)
    /\ \E sender \in byzantine :
          LET h == handle_request(nodes[n],
                                  [current_epoch |-> nodes[n].epoch_id,
                                   known_quorum_certificates |-> {}])
          IN /\ driver' = IF h.panic THEN [driver EXCEPT !.pc = "stopped", !.sent = <<>>]
                          ELSE [driver EXCEPT
                                  !.sent = <<[message |-> DataSyncResponseMessage(h.response),
                                              to |-> Some(sender)]>>]
             /\ crashed' = [crashed EXCEPT ![n] = h.panic]
             /\ UNCHANGED <<nodes, contexts, clock, leaders, delivered, votes_cast,
                            byzantine, network, simulator, call>>

\* CoreDriver::run, DataSyncResponse: handle_response, update_node, then
\* process_node_actions.
DriverResponse(n) ==
    /\ driver.pc = "select"
    /\ Active(n)
    /\ \E clk \in clock[n]..network.clock, response \in ResponsesFor(n) :
          LET h == handle_response(nodes[n], contexts[n], response, clk)
          IN IF h.panic
             THEN /\ Becomes(n, h, clk, {})
                  /\ driver' = [driver EXCEPT !.pc = "stopped", !.sent = <<>>]
                  /\ UNCHANGED simulator
             ELSE \E r \in UpdateNodeResults(h, clk) :
                     Selected(n, r, clk, h.delivered, <<>>)

\* process_node_actions awaits save_node.
DriverSaveNode(n) ==
    /\ driver.pc = "save_node"
    /\ \E ok \in SaveOutcomes(driver.crate) :
          driver' = SaveNodeAwaited(driver, nodes[n], ok)
    /\ UNCHANGED <<nodes, contexts, clock, crashed, leaders, delivered, votes_cast,
                   byzantine, network, simulator, call>>

\* process_node_actions goes on after save_node.
DriverProcessActions(n) ==
    /\ driver.pc = "create_notification"
    /\ driver' = ActionsProcessed(driver, nodes[n], contexts[n])
    /\ UNCHANGED <<nodes, contexts, clock, crashed, leaders, delivered, votes_cast,
                   byzantine, network, simulator, call>>

NextDriver ==
    \/ \E n \in Replicas : DriverTimer(n)
    \/ \E n \in Replicas : DriverNotification(n)
    \/ \E n \in Replicas : DriverRequest(n)
    \/ \E n \in Replicas : DriverResponse(n)
    \/ \E n \in Replicas : DriverSaveNode(n)
    \/ \E n \in Replicas : DriverProcessActions(n)

\* One replica, author 0, of two authors, run by one of the two drivers;
\* author 1 is byzantine and leads the odd rounds.
InitDriver ==
    /\ byzantine = {1}
    /\ network = [rounds |-> MaxRound - 2, clock |-> MaxClock, gaps |-> FALSE,
                  faults |-> 0, epochs |-> MaxEpoch, sync |-> FALSE]
    /\ simulator = SimulatorNew({0})
    /\ call = None
    /\ contexts = [n \in {0} |-> SimulatedContextNew(n, 2, MaxCommandPerEpoch)]
    /\ nodes = [n \in {0} |->
                   make_initial_state(SimulatedContextNew(n, 2, MaxCommandPerEpoch),
                                      NodeConfig, 0)]
    /\ \E crate \in {"bft-driver", "consensus"} :
          driver = DriverNew(crate,
                             make_initial_state(
                                 SimulatedContextNew(0, 2, MaxCommandPerEpoch), NodeConfig, 0))
    /\ clock = [n \in {0} |-> 0]
    /\ crashed = [n \in {0} |-> FALSE]
    /\ leaders = LeaderTable({0, 1}, 0)
    /\ delivered = [n \in {0} |-> <<>>]
    /\ votes_cast = [n \in {0} |-> {}]

SpecDriver == InitDriver /\ [][NextDriver]_vars

(***************************************************************************)
(* bft-lib: the thresholds of a configuration, called on their own.        *)
(***************************************************************************)
\* configuration_tests.rs, equal_configuration: num_nodes authors of weight 1.
equal_configuration(num_nodes) == EpochConfigurationNew([a \in 0..(num_nodes - 1) |-> 1])

\* The configurations of the calls: one author of every weight of a usize,
\* and the equal configurations of the tests.
Configurations ==
    {EpochConfigurationNew([a \in {0} |-> w]) : w \in 1..(2 ^ UsizeBits - 1)}
    \cup {equal_configuration(num_nodes) : num_nodes \in 1..6}

\* The outcomes of a call whose release build yields value, and whose debug
\* build panics when overflows.
Outcomes(value, overflows) ==
    {[panic |-> FALSE, value |-> value]}
    \cup (IF overflows THEN {[panic |-> TRUE, value |-> 0]} ELSE {})

QuorumThresholdCalled ==
    /\ call.output = None
    /\ \E out \in Outcomes(quorum_threshold(call.input),
                            quorum_threshold_panics(call.input)) :
          call' = [call EXCEPT !.function = "quorum_threshold", !.output = Some(out)]
    /\ UNCHANGED program

ValidityThresholdCalled ==
    /\ call.output = None
    /\ \E out \in Outcomes(validity_threshold(call.input),
                            validity_threshold_panics(call.input)) :
          call' = [call EXCEPT !.function = "validity_threshold", !.output = Some(out)]
    /\ UNCHANGED program

NextThresholds == QuorumThresholdCalled \/ ValidityThresholdCalled

InitThresholds ==
    /\ byzantine = {1}
    /\ network = [rounds |-> 0, clock |-> 0, gaps |-> FALSE, faults |-> 0,
                  epochs |-> 0, sync |-> FALSE]
    /\ simulator = SimulatorNew({0})
    /\ driver = NoDriver
    /\ \E input \in Configurations :
          call = [input |-> input, function |-> "", output |-> None]
    /\ contexts = [n \in {0} |-> SimulatedContextNew(n, 2, MaxCommandPerEpoch)]
    /\ nodes = [n \in {0} |->
                   make_initial_state(SimulatedContextNew(n, 2, MaxCommandPerEpoch),
                                      NodeConfig, 0)]
    /\ clock = [n \in {0} |-> 0]
    /\ crashed = [n \in {0} |-> FALSE]
    /\ leaders = LeaderTable({0, 1}, 0)
    /\ delivered = [n \in {0} |-> <<>>]
    /\ votes_cast = [n \in {0} |-> {}]

SpecThresholds == InitThresholds /\ [][NextThresholds]_vars

(***************************************************************************)
(* Properties.                                                             *)
(***************************************************************************)
IsPrefix(s, t) == Len(s) <= Len(t) /\ \A i \in 1..Len(s) : s[i] = t[i]

\* The states that replica n passed to context.commit, in order.
CommittedSequence(n) == [i \in 1..Len(delivered[n]) |-> delivered[n][i][3]]

\* The voting weight of a set of authors.
RECURSIVE WeightOf(_, _)
WeightOf(config, authors) ==
    IF authors = {} THEN 0
    ELSE LET a == CHOOSE x \in authors : TRUE
         IN weight(config, a) + WeightOf(config, authors \ {a})

\* C1: when the byzantine authors hold less than validity_threshold of the
\* voting weight, the committed sequences of any two replicas are equal up
\* to truncation: one is a prefix of the other.
CommittedSequencesArePrefixes ==
    \A m, n \in Replicas :
       WeightOf(nodes[n].record_store.configuration, byzantine)
          < validity_threshold(nodes[n].record_store.configuration)
       => \/ IsPrefix(CommittedSequence(m), CommittedSequence(n))
          \/ IsPrefix(CommittedSequence(n), CommittedSequence(m))

\* The votes that replica n signs in a step.
NewVotes(n) == votes_cast'[n] \ votes_cast[n]

\* C2, as stated: latest_voted_round never decreases, and a replica whose
\* latest_voted_round is r signs no vote of a round <= r.
LatestVotedRoundNeverDecreases ==
    [][\A n \in Replicas :
          /\ nodes'[n].latest_voted_round >= nodes[n].latest_voted_round
          /\ \A v \in NewVotes(n) : v.value.round > nodes[n].latest_voted_round]_vars

\* C2, amended: within an epoch latest_voted_round never decreases and the
\* replica signs no vote of a round <= latest_voted_round; the step that
\* takes the replica to a new epoch resets latest_voted_round to 0, and
\* the only votes that raise it again in that step are of the new epoch.
LatestVotedRoundPerEpoch ==
    [][\A n \in Replicas :
          /\ nodes'[n].epoch_id = nodes[n].epoch_id
                => nodes'[n].latest_voted_round >= nodes[n].latest_voted_round
          /\ nodes'[n].epoch_id # nodes[n].epoch_id
                => \/ nodes'[n].latest_voted_round = 0
                   \/ \E v \in NewVotes(n) :
                         /\ v.value.epoch_id = nodes'[n].epoch_id
                         /\ v.value.round = nodes'[n].latest_voted_round
          /\ \A v \in NewVotes(n) :
                \/ /\ v.value.epoch_id = nodes[n].epoch_id
                   /\ v.value.round > nodes[n].latest_voted_round
                \/ /\ v.value.epoch_id > nodes[n].epoch_id
                   /\ v.value.epoch_id = nodes'[n].epoch_id]_vars

\* A replica that voted, and then moved to the next epoch with
\* latest_voted_round and locked_round back to 0.
VotedThenChangedEpoch ==
    \E n \in Replicas :
       /\ nodes[n].epoch_id = 1
       /\ nodes[n].latest_voted_round = 0
       /\ \E v \in votes_cast[n] : v.value.epoch_id = 0 /\ v.value.round >= 3

\* C3, as stated: locked_round never decreases.
LockedRoundNeverDecreases ==
    [][\A n \in Replicas : nodes'[n].locked_round >= nodes[n].locked_round]_vars

\* C3, amended: within an epoch locked_round never decreases; the step that
\* takes the replica to a new epoch sets locked_round to 0.
LockedRoundPerEpoch ==
    [][\A n \in Replicas :
          /\ nodes'[n].epoch_id = nodes[n].epoch_id
                => nodes'[n].locked_round >= nodes[n].locked_round
          /\ nodes'[n].epoch_id # nodes[n].epoch_id => nodes'[n].locked_round = 0]_vars

\* A replica that locked a round, and then moved to the next epoch.
LockedThenChangedEpoch ==
    \E n \in Replicas :
       /\ nodes[n].epoch_id = 1
       /\ nodes[n].locked_round = 0
       /\ \E v \in votes_cast[n] :
             /\ v.value.epoch_id = 0
             /\ second_previous_round(nodes[n].past_record_stores[0],
                                      v.value.certified_block_hash) > 0

CurrentRoundNeverDecreases ==
    /\ \A n \in Replicas : nodes[n].record_store.current_round = 1
    /\ [][\A n \in Replicas :
             IF nodes'[n].epoch_id = nodes[n].epoch_id
             THEN nodes'[n].record_store.current_round
                     >= nodes[n].record_store.current_round
             ELSE nodes'[n].record_store.current_round >= 1]_vars

\* A record store that holds the QC of a round below its highest QC round,
\* inserted after the round had advanced: the QC of an old round.
OldQuorumCertificateInserted ==
    \E n \in Replicas :
       LET store == nodes[n].record_store
       IN \E p, q \in Range(store.quorum_certificates) :
             /\ p.value.round < q.value.round
             /\ store.blocks[p.value.certified_block_hash]
                   .value.previous_quorum_certificate_hash
                = store.blocks[q.value.certified_block_hash]
                   .value.previous_quorum_certificate_hash

\* The rounds <<r1, r2, r3>> of the chain that ends with a QC for a block
\* of the store, read link by link; <<>> when the chain has fewer than
\* three QCs.
ThreeChainRounds(store, qc) ==
    LET b3 == store.blocks[qc.value.certified_block_hash]
        h2 == b3.value.previous_quorum_certificate_hash
    IN IF h2 = store.initial_hash THEN <<>>
       ELSE LET q2 == store.quorum_certificates[h2]
                b2 == store.blocks[q2.value.certified_block_hash]
                h1 == b2.value.previous_quorum_certificate_hash
            IN IF h1 = store.initial_hash THEN <<>>
               ELSE <<store.quorum_certificates[h1].value.round, q2.value.round,
                      qc.value.round>>

\* The QC commits: its chain has three consecutive rounds, the lowest above
\* the highest committed round of the store.
CommitsThreeChain(store, qc) ==
    LET rounds == ThreeChainRounds(store, qc)
    IN /\ rounds # <<>>
       /\ rounds[2] = rounds[1] + 1
       /\ rounds[3] = rounds[2] + 1
       /\ rounds[1] > store.highest_committed_round

\* C6: the insertion of a QC q3 in a record store raises
\* highest_committed_round to r1 and makes q3 the highest commit
\* certificate exactly when the chain of q3 has rounds r1, r1 + 1, r1 + 2
\* with r1 above the highest committed round; otherwise both are unchanged.
CommitRuleIsThreeChain ==
    \A n \in Replicas :
       \A q3 \in QuorumCertificatesFor(n) :
          LET store == nodes[n].record_store
              r == try_insert_network_record(store, contexts[n], q3)
          IN r.result = "Ok" =>
                IF CommitsThreeChain(store, q3)
                THEN /\ r.store.highest_committed_round = ThreeChainRounds(store, q3)[1]
                     /\ r.store.highest_commit_certificate_hash = Some(hash(q3.value))
                ELSE /\ r.store.highest_committed_round = store.highest_committed_round
                     /\ r.store.highest_commit_certificate_hash
                           = store.highest_commit_certificate_hash

\* A record store where the QC of round 3 committed round 1 and is the
\* commit certificate, its chain being of rounds 1, 2, 3.
ThreeChainCommitted ==
    \E n \in Replicas :
       LET store == nodes[n].record_store
           certificate == highest_commit_certificate(store)
       IN /\ store.highest_committed_round = 1
          /\ IsSome(certificate)
          /\ Unwrap(certificate).value.round = 3
          /\ ThreeChainRounds(store, Unwrap(certificate)) = <<1, 2, 3>>

\* The calls of context.commit of a replica are in increasing order of
\* epoch, and within an epoch in strictly increasing order of round.
DeliveredInOrder(n) ==
    \A i, j \in 1..Len(delivered[n]) :
       i < j => \/ delivered[n][i][1] < delivered[n][j][1]
                \/ /\ delivered[n][i][1] = delivered[n][j][1]
                   /\ delivered[n][i][2] < delivered[n][j][2]

\* The calls of context.commit of a replica for an epoch, as <<round, state>>.
DeliveredOf(n, epoch_id) ==
    LET RECURSIVE From(_)
        From(i) == IF i > Len(delivered[n]) THEN <<>>
                   ELSE IF delivered[n][i][1] = epoch_id
                   THEN <<<<delivered[n][i][2], delivered[n][i][3]>>>> \o From(i + 1)
                   ELSE From(i + 1)
    IN From(1)

\* The epoch of a state that a context has computed.
EpochOf(context, state) ==
    Len(LedgerOf(context, state)) \div context.max_command_per_epoch

\* C7: every committed (round, state) of an epoch is passed to
\* context.commit once, in strictly increasing round order: between two
\* handlers the calls for the current epoch are the committed states of its
\* record store, and the calls for a past epoch are the committed states of
\* its record store up to the state that changed the epoch.
CommitsDeliveredOnce ==
    \A n \in Replicas :
       /\ DeliveredInOrder(n)
       /\ ~crashed[n] =>
             /\ DeliveredOf(n, nodes[n].epoch_id)
                   = committed_states_after(nodes[n].record_store, 0)
             /\ \A e \in DOMAIN nodes[n].past_record_stores :
                   LET past == committed_states_after(nodes[n].past_record_stores[e], 0)
                       done == DeliveredOf(n, e)
                   IN /\ IsPrefix(done, past)
                      /\ done # <<>>
                      /\ EpochOf(contexts[n], done[Len(done)][2]) > e
                      /\ \A i \in 1..(Len(done) - 1) :
                            EpochOf(contexts[n], done[i][2]) = e

\* A replica that delivered the commits of rounds 1 and 2 of epoch 0 and
\* changed epoch at the second.
DeliveredThenChangedEpoch ==
    \E n \in Replicas :
       /\ ~crashed[n]
       /\ nodes[n].epoch_id = 1
       /\ Len(delivered[n]) = 2
       /\ delivered[n][1][2] = 1
       /\ delivered[n][2][2] = 2

\* The records that a record store holds.
Present(store) ==
    Range(store.blocks) \cup Range(store.quorum_certificates)
    \cup Range(store.current_votes) \cup timeouts(store)

\* C8: insert_network_record is idempotent: a second insertion of a record,
\* well formed or not, leaves the record store as the first insertion left
\* it; and the insertion of the records that the store holds, one by one or
\* as the batch of a response, leaves the store unchanged.
InsertionIsIdempotent ==
    \A n \in Replicas :
       LET store == nodes[n].record_store
       IN /\ \A x \in RecordsFor(n) \cup Present(store) :
                LET first == insert_network_record(store, contexts[n], x)
                IN insert_network_record(first.store, first.context, x).store = first.store
          /\ \A x \in Present(store) :
                insert_network_record(store, contexts[n], x).store = store
          /\ InsertRecords([node |-> nodes[n], context |-> contexts[n]], nodes[n].epoch_id,
                           Listed(Present(store))).node.record_store = store

\* A record store that holds a block, a QC, a vote and a timeout, and that
\* receives the timeout again.
TimeoutReceivedTwice ==
    \E n \in Replicas :
       LET store == nodes[n].record_store
       IN /\ store.quorum_certificates # EmptyMap
          /\ store.current_votes # EmptyMap
          /\ \E x \in TimeoutsFor(n) :
                /\ x \in Range(store.current_timeouts)
                /\ verify_timeout(store, x) = "AlreadyTimedOut"

\* C9: a record that insert_network_record rejects leaves the record store
\* as it was before the call.
RejectedRecordsLeaveStore ==
    \A n \in Replicas :
       \A x \in RecordsFor(n) :
          LET r == try_insert_network_record(nodes[n].record_store, contexts[n], x)
          IN r.result # "Ok" => r.store = nodes[n].record_store

\* The record stores of a replica: that of its epoch and those of the past
\* epochs.
RecordStores(n) ==
    {nodes[n].record_store} \cup Range(nodes[n].past_record_stores)

\* C10: every QC that a record store holds certifies a block that the
\* store holds, of the round and of the author of the QC.
QuorumCertificatesMatchBlocks ==
    \A n \in Replicas :
       \A store \in RecordStores(n) :
          \A q \in Range(store.quorum_certificates) :
             /\ q.value.certified_block_hash \in DOMAIN store.blocks
             /\ q.value.round = store.blocks[q.value.certified_block_hash].value.round
             /\ q.value.author = store.blocks[q.value.certified_block_hash].value.author

\* A record store that holds the QCs of two authors and was offered a QC
\* of another round than its block.
QuorumCertificatesOfTwoAuthors ==
    \E n \in Replicas :
       LET store == nodes[n].record_store
       IN /\ \E p, q \in Range(store.quorum_certificates) : p.value.author # q.value.author
          /\ \E x \in FaultyRecordsFor(n) :
                /\ x.value.kind = "QuorumCertificate"
                /\ verify_quorum_certificate(store, x) = "RoundMismatch"

\* The authors whose current vote is for a block and a state.
VotersOf(store, block_hash, state) ==
    {a \in DOMAIN store.current_votes :
        /\ store.current_votes[a].value.certified_block_hash = block_hash
        /\ store.current_votes[a].value.state = state}

\* C11: a record store keeps and counts one vote per author at the current
\* round: the vote of an author that has a current vote is rejected and
\* leaves the store, its ballot included, unchanged; every entry of the
\* ballot is the weight of the authors whose current vote is for it, and an
\* election is won only by authors that weigh a quorum.
OneVotePerAuthor ==
    \A n \in Replicas :
       LET store == nodes[n].record_store
           election == store.current_election
       IN /\ \A x \in RecordsFor(n) :
                (x.value.kind = "Vote" /\ x.value.author \in DOMAIN store.current_votes)
                => LET r == try_insert_network_record(store, contexts[n], x)
                   IN r.result # "Ok" /\ r.store = store
          /\ election.tag = "Ongoing" =>
                \A k \in DOMAIN election.ballot :
                   election.ballot[k]
                      = WeightOf(store.configuration, VotersOf(store, k[1], k[2]))
          /\ election.tag = "Won" =>
                WeightOf(store.configuration,
                         VotersOf(store, election.block_hash, election.state))
                   >= quorum_threshold(store.configuration)

\* A record store where an author has voted, the election is not won, and
\* the vote of this author for another block of the round arrives and is
\* rejected.
SecondVoteForAnotherBlock ==
    \E n \in Replicas :
       LET store == nodes[n].record_store
       IN /\ store.current_election.tag = "Ongoing"
          /\ \E x \in VotesFor(n) :
                /\ x.value.author \in DOMAIN store.current_votes
                /\ store.current_votes[x.value.author].value.certified_block_hash
                      # x.value.certified_block_hash
                /\ verify_vote(store, x) = "AlreadyVoted"

\* C12: the highest commit certificate of a record store, when there is
\* one, carries as committed_state the state of the last pair of
\* committed_states_after(0), whose round is highest_committed_round.
CommitCertificateCarriesCommittedState ==
    \A n \in Replicas :
       \A store \in RecordStores(n) :
          LET certificate == highest_commit_certificate(store)
              commits == committed_states_after(store, 0)
          IN IsSome(certificate) =>
                /\ commits # <<>>
                /\ commits[Len(commits)][1] = store.highest_committed_round
                /\ Unwrap(certificate).value.committed_state
                      = Some(commits[Len(commits)][2])

\* A record store whose commit certificate names the state of round 1 as
\* committed, the only pair of committed_states_after(0).
CommitCertificateOfFirstRound ==
    \E n \in Replicas :
       LET store == nodes[n].record_store
           certificate == highest_commit_certificate(store)
           commits == committed_states_after(store, 0)
       IN /\ IsSome(certificate)
          /\ Len(commits) = 1
          /\ commits[1][1] = 1
          /\ Unwrap(certificate).value.committed_state = Some(commits[1][2])

\* The node and the context when update_node, called on those of r at
\* time clk, reaches its vote: after the actions of the pacemaker.
BeforeVote(r, clk) ==
    LET pm == update_pacemaker(r.node.pacemaker, r.context.author, r.node.epoch_id,
                               r.node.record_store, r.node.latest_query_all_time, clk)
    IN process_pacemaker_actions([r.node EXCEPT !.pacemaker = pm.pacemaker],
                                 r.context, pm.actions, clk)

\* update_node on r at time clk reaches its vote.
ReachesVote(r, clk) ==
    /\ ~update_pacemaker(r.node.pacemaker, r.context.author, r.node.epoch_id,
                         r.node.record_store, r.node.latest_query_all_time, clk).panic
    /\ ~proposed_block_panics(BeforeVote(r, clk).node.record_store,
                              BeforeVote(r, clk).node.pacemaker)

\* The calls of update_node that replica n can make next: at a timer, after
\* handle_notification and after handle_response, as <<[node, context], clk>>.
UpdateNodeCalls(n) ==
    {<<[node |-> nodes[n], context |-> contexts[n]], clk>> :
        clk \in clock[n]..network.clock}
    \cup {<<[node |-> h.node, context |-> h.context], clock[n]>> :
             h \in {handle_notification(nodes[n], contexts[n], x) :
                       x \in NotificationsFor(n)}}
    \cup {<<[node |-> h.node, context |-> h.context], clock[n]>> :
             h \in {y \in {handle_response(nodes[n], contexts[n], x, clock[n]) :
                              x \in ResponsesFor(n)} : ~y.panic}}

\* The vote step of update_node applied to r keeps to the voting rules.
VoteKeepsRules(r) ==
    LET store == r.node.record_store
        proposal == proposed_block(store, r.node.pacemaker)
        voted == UpdateNodeVote(r.node, r.context, proposal)
        allowed == /\ IsSome(proposal)
                   /\ Unwrap(proposal)[2] > r.node.latest_voted_round
                   /\ previous_round(store, Unwrap(proposal)[1]) >= r.node.locked_round
    IN /\ IsSome(voted.vote) =>
             /\ allowed
             /\ Unwrap(voted.vote).value.certified_block_hash = Unwrap(proposal)[1]
             /\ Unwrap(voted.vote).value.round = Unwrap(proposal)[2]
       /\ IsSome(proposal) =>
             /\ Unwrap(proposal)[1] = Unwrap(store.current_proposed_block)
             /\ Unwrap(proposal)[2] = store.current_round
             /\ Some(Unwrap(proposal)[3]) = r.node.pacemaker.active_leader
             /\ store.blocks[Unwrap(proposal)[1]].value.author = Unwrap(proposal)[3]
       /\ allowed =>
             /\ voted.node.latest_voted_round = Unwrap(proposal)[2]
             /\ voted.node.locked_round =
                   Max(r.node.locked_round,
                       second_previous_round(store, Unwrap(proposal)[1]))
       /\ ~allowed =>
             /\ voted.node = r.node
             /\ voted.vote = None

\* C13: update_node votes only for the block that proposed_block yields, a
\* block of the current round of the active leader of the pacemaker, and
\* only if its round is above latest_voted_round and its previous round is
\* at least locked_round, as they are just before the vote; it then sets
\* latest_voted_round to the round of the block and locked_round to the
\* maximum of locked_round and the second previous round of the block.
VotesKeepVotingRules ==
    \A n \in Replicas :
       Active(n) =>
          \A c \in UpdateNodeCalls(n) :
             ReachesVote(c[1], c[2]) => VoteKeepsRules(BeforeVote(c[1], c[2]))

\* A replica about to vote for a block whose second previous round is above
\* its locked round.
VoteRaisesLock ==
    \E n \in Replicas :
       /\ Active(n)
       /\ \E c \in UpdateNodeCalls(n) :
             /\ ReachesVote(c[1], c[2])
             /\ LET r == BeforeVote(c[1], c[2])
                    proposal == proposed_block(r.node.record_store, r.node.pacemaker)
                    voted == UpdateNodeVote(r.node, r.context, proposal)
                IN /\ IsSome(proposal)
                   /\ IsSome(voted.vote)
                   /\ r.node.latest_voted_round > 0
                   /\ voted.node.locked_round > r.node.locked_round

\* The latest of the times that a node recorded.
PreviousTime(node) ==
    Max(node.latest_query_all_time,
        Max(node.tracker.latest_commit_time, node.pacemaker.active_round_start_time))

ProcessCommitsCalls(n) ==
    UNION {LET voted == update_node_votes(c[1].node, c[1].context, c[2])
           IN IF voted.panic THEN {}
              ELSE {LET qc == check_for_new_quorum_certificate(
                                  voted.node.record_store, voted.context, order)
                    IN [node |-> [voted.node EXCEPT !.record_store = qc.store],
                        context |-> qc.context]
                    : order \in Orders(voted.node.record_store)}
           : c \in UpdateNodeCalls(n)}
    \cup UNION {LET batches == x.records
                    first == {i \in 1..Len(batches) : batches[i][1] >= nodes[n].epoch_id}
                    i == CHOOSE j \in first : \A k \in first : j <= k
                IN IF first = {} THEN {}
                   ELSE IF batches[i][1] > nodes[n].epoch_id \/ i = Len(batches) THEN {}
                   ELSE {InsertRecords([node |-> nodes[n], context |-> contexts[n]],
                                       batches[i][1], batches[i][2])}
                : x \in ResponsesFor(n)}

\* The positions of the commits that end the epoch of the node of p.
EpochEnds(p, commits) ==
    {i \in 1..Len(commits) : EpochOf(p.context, commits[i][2]) > p.node.epoch_id}

\* process_commits on p, when one of its commits ends the epoch: the first
\* such commit, at position i, is the last one delivered.
EpochChanged(p, r, commits, i) ==
    LET state == commits[i][2]
        new_epoch_id == EpochOf(p.context, state)
        store == r.node.record_store
    IN /\ r.node.past_record_stores =
             (p.node.epoch_id :> p.node.record_store) @@ p.node.past_record_stores
       /\ r.node.past_record_stores[p.node.epoch_id] = p.node.record_store
       /\ store.blocks = EmptyMap /\ store.quorum_certificates = EmptyMap
       /\ store.current_votes = EmptyMap /\ store.current_timeouts = EmptyMap
       /\ store.current_round = 1
       /\ store.initial_state = state
       /\ store.epoch_id = new_epoch_id
       /\ store.configuration = configuration(r.context)
       /\ r.node.epoch_id = new_epoch_id
       /\ r.node.latest_voted_round = 0
       /\ r.node.locked_round = 0
       /\ r.delivered = [j \in 1..i |-> <<p.node.epoch_id, commits[j][1], commits[j][2]>>]

\* C15: when process_commits delivers a state whose epoch is above the
\* epoch of the node, the old record store moves unchanged into
\* past_record_stores under the old epoch, a fresh record store (no record,
\* current round 1) starts from that state and its configuration, epoch_id
\* is the new epoch, latest_voted_round and locked_round are 0, and the
\* call delivers no further commit.
ProcessCommitsChangesEpoch ==
    \A n \in Replicas :
       Active(n) =>
          \A p \in ProcessCommitsCalls(n) :
             LET r == process_commits(p.node, p.context)
                 commits == committed_states_after(p.node.record_store,
                                                   p.node.tracker.highest_committed_round)
                 ends == EpochEnds(p, commits)
             IN (~r.panic /\ ends # {})
                => EpochChanged(p, r, commits, CHOOSE i \in ends : \A j \in ends : i <= j)

\* A call of process_commits with two commits to deliver, the first of
\* which ends the epoch.
EpochEndsBeforeLastCommit ==
    \E n \in Replicas :
       /\ Active(n)
       /\ \E p \in ProcessCommitsCalls(n) :
             LET r == process_commits(p.node, p.context)
                 commits == committed_states_after(p.node.record_store,
                                                   p.node.tracker.highest_committed_round)
             IN /\ ~r.panic
                /\ Len(commits) = 2
                /\ 1 \in EpochEnds(p, commits)
                /\ p.node.locked_round > 0

\* C16: the handlers of a node leave its past record stores as they are,
\* and a record offered under another epoch than the epoch of the node,
\* alone or as a batch of a response, leaves every record store unchanged.
PastRecordStoresAreFrozen ==
    [][\A n \in Replicas :
          /\ \A e \in DOMAIN nodes[n].past_record_stores :
                /\ e \in DOMAIN nodes'[n].past_record_stores
                /\ nodes'[n].past_record_stores[e] = nodes[n].past_record_stores[e]
          /\ \A x \in RecordsFor(n) :
                \A e \in (0..(MaxEpoch + 1)) \ {nodes[n].epoch_id} :
                   /\ node_insert_network_record(nodes[n], contexts[n], e, x).node
                         = nodes[n]
                   /\ handle_response(nodes[n], contexts[n],
                                      [current_epoch |-> e, records |-> <<<<e, <<x>>>>>>],
                                      clock[n]).node = nodes[n]]_vars

\* A replica that keeps the record store of a past epoch and holds a QC of
\* its current epoch.
CertifiedAfterEpochChange ==
    \E n \in Replicas :
       /\ DOMAIN nodes[n].past_record_stores # {}
       /\ nodes[n].record_store.quorum_certificates # EmptyMap
       /\ Active(n)

\* C17: create_notification reports the highest commit certificate of the
\* current epoch when there is one; otherwise, in an epoch above 0, that of
\* the record store of the previous epoch.
NotificationCarriesCommitCertificate ==
    \A n \in Replicas :
       LET node == nodes[n]
           notification == create_notification(node, contexts[n])
           certificate == highest_commit_certificate(node.record_store)
       IN /\ IsSome(certificate)
             => notification.highest_commit_certificate = certificate
          /\ (~IsSome(certificate) /\ node.epoch_id > 0
              /\ (node.epoch_id - 1) \in DOMAIN node.past_record_stores)
             => notification.highest_commit_certificate
                   = highest_commit_certificate(node.past_record_stores[node.epoch_id - 1])

\* The request that handle_notification returns is made of the node that
\* it leaves.
RequestOf(h) ==
    IsSome(h.request) =>
       Unwrap(h.request) =
          [current_epoch |-> h.node.epoch_id,
           known_quorum_certificates |->
               known_quorum_certificate_rounds(h.node.record_store)]

\* C18, as stated: handle_notification returns a request, of the local
\* epoch and the known QC rounds, exactly when the epoch of the notifier is
\* above the local epoch, or its highest commit certificate is of the local
\* epoch and of a round above highest_committed_round + 2, or its highest
\* QC is of the local epoch and of a round above the round of the local
\* highest QC, the local values being those after the handler tried to
\* insert the two certificates.
RequestIffBehind ==
    \A n \in Replicas :
       \A x \in NotificationsFor(n) :
          LET h == handle_notification(nodes[n], contexts[n], x)
              local == HandleQuorumCertificate(
                           HandleCommitCertificate(
                               [node |-> nodes[n], context |-> contexts[n],
                                should_sync |-> FALSE],
                               x.highest_commit_certificate),
                           x.highest_quorum_certificate).node
              hcc == x.highest_commit_certificate
              hqc == x.highest_quorum_certificate
          IN /\ RequestOf(h)
             /\ IsSome(h.request) <=>
                   \/ x.current_epoch > local.epoch_id
                   \/ /\ IsSome(hcc)
                      /\ Unwrap(hcc).value.epoch_id = local.epoch_id
                      /\ Unwrap(hcc).value.round
                            > local.record_store.highest_committed_round + 2
                   \/ /\ IsSome(hqc)
                      /\ Unwrap(hqc).value.epoch_id = local.epoch_id
                      /\ Unwrap(hqc).value.round
                            > local.record_store.highest_quorum_certificate_round

\* C18, amended: a certificate of an epoch above the local epoch also makes
\* the handler return a request, and the round of the highest commit
\* certificate is compared with the highest_committed_round that the store
\* has once the handler tried to insert that certificate, before it tries
\* to insert the highest QC.
RequestIffBehindOrLaterEpoch ==
    \A n \in Replicas :
       \A x \in NotificationsFor(n) :
          LET h == handle_notification(nodes[n], contexts[n], x)
              first == HandleCommitCertificate(
                           [node |-> nodes[n], context |-> contexts[n],
                            should_sync |-> FALSE],
                           x.highest_commit_certificate).node
              local == HandleQuorumCertificate(
                           [node |-> first, context |-> contexts[n],
                            should_sync |-> FALSE],
                           x.highest_quorum_certificate).node
              hcc == x.highest_commit_certificate
              hqc == x.highest_quorum_certificate
          IN /\ RequestOf(h)
             /\ IsSome(h.request) <=>
                   \/ x.current_epoch > local.epoch_id
                   \/ /\ IsSome(hcc)
                      /\ \/ Unwrap(hcc).value.epoch_id > local.epoch_id
                         \/ /\ Unwrap(hcc).value.epoch_id = local.epoch_id
                            /\ Unwrap(hcc).value.round
                                  > first.record_store.highest_committed_round + 2
                   \/ /\ IsSome(hqc)
                      /\ \/ Unwrap(hqc).value.epoch_id > local.epoch_id
                         \/ /\ Unwrap(hqc).value.epoch_id = local.epoch_id
                            /\ Unwrap(hqc).value.round
                                  > local.record_store.highest_quorum_certificate_round

\* A notification of the local epoch whose highest QC is of a later epoch:
\* the handler returns a request.
CertificateOfLaterEpoch ==
    \E n \in Replicas :
       \E x \in NotificationsFor(n) :
          /\ x.current_epoch = nodes[n].epoch_id
          /\ IsSome(x.highest_quorum_certificate)
          /\ Unwrap(x.highest_quorum_certificate).value.epoch_id > nodes[n].epoch_id
          /\ IsSome(handle_notification(nodes[n], contexts[n], x).request)

\* The chain of QCs of a record store, from the first round to the highest
\* QC.
QuorumCertificateChain(store) ==
    LET qcs == BackwardQuorumCertificates(store, store.highest_quorum_certificate_hash)
    IN [i \in 1..Len(qcs) |-> qcs[Len(qcs) + 1 - i]]

\* Replica n lags behind replica m: both are in the same epoch and the
\* chain of QCs of n is a prefix of the chain of m.
LagsBehind(n, m) ==
    /\ n # m
    /\ nodes[n].epoch_id = nodes[m].epoch_id
    /\ IsPrefix(QuorumCertificateChain(nodes[n].record_store),
                QuorumCertificateChain(nodes[m].record_store))

\* The node of replica n once it handled the response of replica m to its
\* request.
CaughtUp(n, m) ==
    handle_response(nodes[n], contexts[n],
                    handle_request(nodes[m], create_request_internal(nodes[n])).response,
                    clock[n])

\* C19: when replica n, whose chain of QCs is a prefix of the chain of
\* replica m in the same epoch, sends m the request made of its store and
\* handles the response of m, the round of its highest QC is at least the
\* round of the highest QC of m, and its current round at least that round
\* plus 1.
ResponseCatchesUp ==
    \A n, m \in Replicas :
       LagsBehind(n, m) =>
          LET h == CaughtUp(n, m)
              round == nodes[m].record_store.highest_quorum_certificate_round
          IN /\ ~h.panic
             /\ h.node.record_store.highest_quorum_certificate_round >= round
             /\ h.node.record_store.current_round >= round + 1

\* Replica n holds a QC, replica m holds more QCs on top of the chain of n
\* and is past the round of n, and the response of m takes n to the round
\* after the highest QC of m.
LaggingReplicaCatchesUp ==
    \E n, m \in Replicas :
       /\ LagsBehind(n, m)
       /\ nodes[n].record_store.highest_quorum_certificate_round >= 1
       /\ nodes[m].record_store.highest_quorum_certificate_round
             > nodes[n].record_store.highest_quorum_certificate_round
       /\ nodes[n].record_store.current_round
             <= nodes[m].record_store.highest_quorum_certificate_round
       /\ CaughtUp(n, m).node.record_store.current_round
             = nodes[m].record_store.highest_quorum_certificate_round + 1

\* The pending UpdateTimerEvents of replica n that are scheduled strictly
\* after the watermark of n.
PendingAfterWatermark(n) ==
    {i \in DOMAIN simulator.pending_events :
        /\ simulator.pending_events[i].author = n
        /\ simulator.pending_events[i].scheduled_time
              > simulator.ignore_scheduled_updates_until[n]}

\* The next event of the simulator is an UpdateTimerEvent that its node
\* ignores.
UpdateTimerIgnored ==
    /\ simulator.pending_events # <<>>
    /\ LET i == NextEvent(simulator)
       IN Popped(simulator, i).clock
             <= simulator.ignore_scheduled_updates_until[simulator.pending_events[i].author]

\* A step that pops an ignored UpdateTimerEvent calls no update_node: it
\* leaves the nodes as they are.
IgnoredTimerCallsNothing ==
    (UpdateTimerIgnored /\ Len(simulator.pending_events') < Len(simulator.pending_events))
       => UNCHANGED <<nodes, contexts, clock, crashed, delivered, votes_cast>>

NotificationsOf(d) ==
    {d.sent[i].message.body : i \in {j \in DOMAIN d.sent :
                                        d.sent[j].message.type = "DataSyncNotification"}}

\* The storage of the driver holds the state of the replica that it runs.
NodeIsSaved(d, node) == read_value(d.storage, "node_state") = Some(serialize(node))

RoundsEntered(n) ==
    {<<update_pacemaker(c[1].node.pacemaker, c[1].context.author,
                             c[1].node.epoch_id, c[1].node.record_store,
                             c[1].node.latest_query_all_time, c[2]).pacemaker,
            c[1].node.record_store>> :
             c \in {x \in UpdateNodeCalls(n) :
                       LET pm == update_pacemaker(x[1].node.pacemaker, x[1].context.author,
                                                  x[1].node.epoch_id, x[1].node.record_store,
                                                  x[1].node.latest_query_all_time, x[2])
                       IN /\ ~pm.panic
                          /\ \/ pm.pacemaker.active_round # x[1].node.pacemaker.active_round
                             \/ pm.pacemaker.active_epoch # x[1].node.pacemaker.active_epoch}}

ThresholdOf(function, W) ==
    IF function = "quorum_threshold" THEN (2 * W) \div 3 + 1 ELSE (W + 2) \div 3

\* The call was made on N authors of weight 1 each.
EqualWeights(N) ==
    /\ DOMAIN call.input.voting_rights = 0..(N - 1)
    /\ \A a \in 0..(N - 1) : call.input.voting_rights[a] = 1

\* With N = 3f + 1 + k authors of weight 1, the quorum threshold is N - f
\* and the validity threshold f + 1.
ThresholdsOfEqualWeights ==
    \A N \in 1..6 :
       (call.output # None /\ EqualWeights(N)) =>
          LET f == (N - 1) \div 3
          IN Unwrap(call.output).value =
                IF call.function = "quorum_threshold" THEN N - f ELSE f + 1

\* C23 as stated: for every total voting weight W >= 1, quorum_threshold is
\* floor(2W/3) + 1 and validity_threshold is floor((W+2)/3).
ThresholdsOfEveryWeight ==
    call.output # None =>
       /\ ~Unwrap(call.output).panic
       /\ Unwrap(call.output).value = ThresholdOf(call.function, call.input.total_votes)
       /\ ThresholdsOfEqualWeights

\* C23: for every total voting weight W >= 1 such that 2W, for the quorum
\* threshold, and W + 2, for the validity threshold, fit a usize,
\* quorum_threshold is floor(2W/3) + 1 and validity_threshold is
\* floor((W+2)/3); N authors of equal weight, N = 3f + 1 + k, give the
\* quorum threshold N - f (1, 2, 3, 3, 4, 5 for N = 1..6) and the validity
\* threshold f + 1.
ThresholdsWithoutOverflow ==
    call.output # None =>
       LET W == call.input.total_votes
           fits == IF call.function = "quorum_threshold"
                   THEN 2 * W < 2 ^ UsizeBits ELSE W + 2 < 2 ^ UsizeBits
       IN /\ fits => /\ ~Unwrap(call.output).panic
                     /\ Unwrap(call.output).value = ThresholdOf(call.function, W)
          /\ ThresholdsOfEqualWeights
          /\ \A N \in 1..6 :
                (EqualWeights(N) /\ call.function = "quorum_threshold") =>
                   Unwrap(call.output).value = <<1, 2, 3, 3, 4, 5>>[N]

\* The quorum threshold of four authors of weight 1 is 3.
QuorumOfFourAuthors ==
    /\ call.output = Some([panic |-> FALSE, value |-> 3])
    /\ call.function = "quorum_threshold"
    /\ EqualWeights(4)

\* Replica n went through round `round` by a timeout certificate that holds
\* its own timeout, and committed nothing.
SkippedRound(n, round) ==
    LET store == nodes[n].record_store
    IN /\ store.highest_timeout_certificate_round = round
       /\ store.current_round = round + 1
       /\ IsSome(store.highest_timeout_certificate)
       /\ \E t \in Unwrap(store.highest_timeout_certificate) :
             t.value.author = n /\ t.value.round = round
       /\ store.highest_committed_round = 0
       /\ delivered[n] = <<>>

HappyPathCommitted(n) ==
    LET store == nodes[n].record_store
        qcs == {store.quorum_certificates[h] : h \in DOMAIN store.quorum_certificates}
        config == configuration(contexts[n])
    IN /\ ~crashed[n]
       /\ \A r \in 1..3 :
             \E q \in qcs :
                /\ q.value.round = r
                /\ q.value.author = leaders[r]
                /\ store.blocks[q.value.certified_block_hash].value.author = leaders[r]
                /\ store.blocks[q.value.certified_block_hash].value.round = r
                /\ Len(q.value.votes) >= quorum_threshold(config)
                /\ r = 1 => delivered[n] = <<<<0, 1, q.value.state>>>>
       /\ store.highest_committed_round >= 1

\* C25: when every replica is honest, every message is eventually delivered
\* and no round times out, the leaders of rounds 1, 2 and 3 each propose,
\* collect a quorum of votes and form a QC, and eventually every replica
\* has highest_committed_round >= 1 and has delivered the state of the block
\* of round 1 to the application, and nothing else.
HappyPathCommits == <>[](\A n \in HonestReplicas : HappyPathCommitted(n))

\* Every replica committed round 1 after the QCs of rounds 1, 2 and 3.
EveryReplicaCommittedRound1 == \A n \in Replicas : HappyPathCommitted(n)

\* The request of the exchange that is followed is handled in this step.
RequestIsHandled == /\ call # None
                    /\ call.function = "handle_request"
                    /\ call.output = None
                    /\ call' # None
                    /\ call'.output # None

\* C26 as stated: for DataSyncRequestEvent {receiver, sender, request}, a
\* request that node receiver issued toward node sender, handle_request is
\* executed on the state of node sender: the response that is scheduled is
\* the one that sender makes of the request, and it is for receiver.
RequestAnsweredBySender ==
    [][RequestIsHandled =>
          /\ Unwrap(call'.output).response
                = handle_request(nodes[call.input.sender], call.input.request).response
          /\ Unwrap(call'.output).receiver = call.input.receiver]_vars

\* What loop_until does: handle_request is executed on the state of node
\* receiver, the node that issued the request, which then handles the
\* response that it made itself.
RequestAnsweredByReceiver ==
    [][RequestIsHandled =>
          /\ Unwrap(call'.output).response
                = handle_request(nodes[call.input.receiver], call.input.request).response
          /\ Unwrap(call'.output).receiver = call.input.receiver]_vars

\* A response that the requesting node made of its own request is pending,
\* and the node the request was for would have answered otherwise.
OwnResponsePending ==
    /\ call # None
    /\ call.function = "handle_request"
    /\ call.output # None
    /\ Unwrap(call.output).response
         # handle_request(nodes[call.input.sender], call.input.request).response

\* The epochs and rounds of the timeouts of replica n itself that its store
\* holds, among the timeouts of the current round and of the highest TC.
OwnTimeoutRounds(n) ==
    {<<t.value.epoch_id, t.value.round>> :
        t \in {x \in timeouts(nodes[n].record_store) : x.value.author = contexts[n].author}}

\* C27: once a replica has created its own timeout for round r of an epoch,
\* it never afterwards creates a vote for a block of round r in that epoch:
\* no step creates a vote for a round of which the store holds, before or
\* after the step, a timeout of the replica, and latest_voted_round is at
\* least the round of every such timeout of the epoch of the replica.
NoVoteAfterOwnTimeout ==
    [][\A n \in Replicas :
          /\ \A v \in votes_cast'[n] \ votes_cast[n] :
                <<v.value.epoch_id, v.value.round>>
                   \notin (OwnTimeoutRounds(n) \cup OwnTimeoutRounds(n)')
          /\ \A t \in OwnTimeoutRounds(n)' :
                t[1] = nodes'[n].epoch_id => t[2] <= nodes'[n].latest_voted_round]_vars

\* Replica n timed out at its current round and holds the proposal of the
\* leader of the round, that its lock allows, and did not vote for it.
ProposalAfterOwnTimeout ==
    \E n \in Replicas :
       LET store == nodes[n].record_store
           proposal == proposed_block(store, nodes[n].pacemaker)
       IN /\ ~crashed[n]
          /\ <<nodes[n].epoch_id, store.current_round>> \in OwnTimeoutRounds(n)
          /\ nodes[n].pacemaker.active_round = store.current_round
          /\ ~proposed_block_panics(store, nodes[n].pacemaker)
          /\ IsSome(proposal)
          /\ Unwrap(proposal)[2] = store.current_round
          /\ Unwrap(proposal)[3] # contexts[n].author
          /\ previous_round(store, Unwrap(proposal)[1]) >= nodes[n].locked_round
          /\ \A v \in votes_cast[n] :
                <<v.value.epoch_id, v.value.round>>
                   # <<nodes[n].epoch_id, store.current_round>>

\* The calls of update_node that replica n can make next among honest
\* replicas and the byzantine authors that copy the proposal: at a timer
\* and after handle_notification, as <<[node, context], clk>>.
ElectionCalls(n) ==
    {<<[node |-> nodes[n], context |-> contexts[n]], clk>> :
        clk \in clock[n]..network.clock}
    \cup {<<[node |-> h.node, context |-> h.context], clock[n]>> :
             h \in {handle_notification(nodes[n], contexts[n], x) :
                       x \in EquivocationsFor(n)
                             \cup {PeerNotification(p) : p \in Replicas \ {n}}}}

\* The calls of check_for_new_quorum_certificate that update_node of replica
\* n can make next, as <<store, context, order>>.
QuorumCertificateChecks(n) ==
    IF ~Active(n) THEN {}
    ELSE UNION {{<<v.node.record_store, v.context, order>> :
                    order \in Orders(v.node.record_store)} :
                 v \in {x \in {update_node_votes(c[1].node, c[1].context, c[2]) :
                                  c \in ElectionCalls(n)} : ~x.panic}}

\* The store after check_for_new_quorum_certificate holds a QC for the block
\* that won the election of the store before it.
WinnerCertified(before, after) ==
    LET block_hash == before.current_election.block_hash
        round == before.blocks[block_hash].value.round
    IN /\ \E h \in DOMAIN after.quorum_certificates :
             /\ after.quorum_certificates[h].value.certified_block_hash = block_hash
             /\ after.quorum_certificates[h].value.author = before.blocks[block_hash].value.author
       /\ after.highest_quorum_certificate_round = round
       /\ after.current_round > round

\* C28 as stated: whenever check_for_new_quorum_certificate returns true,
\* the QC it built has passed verification and is stored: the store holds a
\* QC for the winning block, highest_quorum_certificate_round is the round
\* of that block and current_round is greater, for every content of
\* current_votes that the store can reach.
CreatedQuorumCertificateIsStored ==
    \A n \in Replicas :
       \A c \in QuorumCertificateChecks(n) :
          LET checked == check_for_new_quorum_certificate(c[1], c[2], c[3])
          IN checked.created => WinnerCertified(c[1], checked.store)

\* The votes of the current round of a store are all for the block that won
\* the election.
VotesForWinner(store) ==
    \A a \in DOMAIN store.current_votes :
       store.current_votes[a].value.state = store.current_election.state
          => store.current_votes[a].value.certified_block_hash
                = store.current_election.block_hash

\* What holds of check_for_new_quorum_certificate: when it returns true
\* the election is closed, and the QC is stored when every vote for the
\* winning state is a vote for the winning block.
QuorumCertificateOfWinnerIsStored ==
    \A n \in Replicas :
       \A c \in QuorumCertificateChecks(n) :
          LET checked == check_for_new_quorum_certificate(c[1], c[2], c[3])
          IN checked.created =>
                /\ c[1].current_election.tag = "Won"
                /\ VotesForWinner(c[1]) => WinnerCertified(c[1], checked.store)
                /\ ~VotesForWinner(c[1]) =>
                      /\ checked.store.current_election = Closed
                      /\ checked.store.quorum_certificates = c[1].quorum_certificates
                      /\ checked.store.current_round = c[1].current_round

\* A replica whose election is closed at its current round, without a QC of
\* that round: the QC that it built was rejected.
ElectionClosedWithoutCertificate ==
    \E n \in Replicas :
       /\ nodes[n].record_store.current_election = Closed
       /\ nodes[n].record_store.highest_quorum_certificate_round
             < nodes[n].record_store.current_round

\* The authors whose vote of the current round of a store is for the given
\* block and state.
VotersFor(store, block_hash, state) ==
    {a \in DOMAIN store.current_votes :
        /\ store.current_votes[a].value.certified_block_hash = block_hash
        /\ store.current_votes[a].value.state = state}

\* The QCs of a store that the given author made.
CertificatesBy(store, author) ==
    {q \in Range(store.quorum_certificates) : q.value.author = author}

\* A step of replica n that stays in its round moves its election from
\* Ongoing to Won to Closed only.
ElectionMoves(n) ==
    LET before == nodes[n].record_store
        after == nodes'[n].record_store
        election == before.current_election
        moved == after.current_election
        threshold == quorum_threshold(after.configuration)
    IN /\ (election.tag # "Ongoing" /\ moved.tag = "Ongoing") =>
             \/ after.current_round > before.current_round
             \/ after.epoch_id > before.epoch_id
       /\ moved.tag = "Ongoing" =>
             \A k \in DOMAIN moved.ballot : moved.ballot[k] < threshold
       /\ moved.tag = "Won" =>
             WeightOf(after.configuration,
                      VotersFor(after, moved.block_hash, moved.state)) >= threshold
       /\ (after.current_round = before.current_round /\ after.epoch_id = before.epoch_id) =>
             /\ election.tag = "Won" => moved \in {election, Closed}
             /\ (election.tag = "Won" /\ moved = Closed) =>
                   before.blocks[election.block_hash].value.author = contexts[n].author
             /\ (election.tag = "Ongoing" /\ moved = Closed) =>
                   \E h \in DOMAIN after.blocks :
                      /\ after.blocks[h].value.author = contexts[n].author
                      /\ after.blocks[h].value.round = after.current_round
                      /\ WeightOf(after.configuration,
                                  VotersFor(after, h, after.current_votes[contexts[n].author]
                                                         .value.state)) >= threshold
             /\ election = Closed =>
                   /\ moved = Closed
                   /\ CertificatesBy(after, contexts[n].author)
                        = CertificatesBy(before, contexts[n].author)

\* C29: within one round the election of a store only moves from Ongoing to
\* Won to Closed: it is Won when a ballot entry reaches quorum_threshold,
\* Closed only through check_for_new_quorum_certificate run by the author of
\* the winning block, Ongoing again only when current_round advances, and
\* once it is Closed the replica makes no further QC at that round.
ElectionOnlyMovesForward == [][\A n \in Replicas : ElectionMoves(n)]_vars

\* The election of a replica is won, that of another one is closed.
ElectionWonAndClosed ==
    /\ \E n \in Replicas : nodes[n].record_store.current_election.tag = "Won"
    /\ \E n \in Replicas : nodes[n].record_store.current_election = Closed

\* The timeouts that may reach the store of replica n: those of the
\* byzantine authors for its current round, those with one fault, those of
\* the round before, and the timeouts that the store holds already.
TimeoutInputs(n) ==
    LET store == nodes[n].record_store
    IN AdversaryTimeouts(store)
       \cup FaultyTimeouts(store)
       \cup {TimeoutRecord(store.epoch_id, store.current_round - 1, 0, a) : a \in byzantine}
       \cup timeouts(store)

\* try_insert_network_record of a timeout counts it toward the timeout
\* certificate of the current round, or leaves the store as it is.
TimeoutCounted(store, context, timeout) ==
    LET r == try_insert_network_record(store, context, timeout)
        author == timeout.value.author
        voters == DOMAIN store.current_timeouts \cup {author}
        certificate == {store.current_timeouts[a] : a \in DOMAIN store.current_timeouts}
                       \cup {timeout}
    IN IF r.result # "Ok"
       THEN r.store = store
       ELSE /\ timeout.value.round = store.current_round
            /\ timeout.value.epoch_id = store.epoch_id
            /\ author \notin DOMAIN store.current_timeouts
            /\ IF WeightOf(store.configuration, voters)
                    >= quorum_threshold(store.configuration)
               THEN /\ r.store.highest_timeout_certificate_round = store.current_round
                    /\ r.store.highest_timeout_certificate = Some(certificate)
                    /\ r.store.current_round = store.current_round + 1
                    /\ r.store.current_timeouts = EmptyMap
                    /\ r.store.current_timeouts_weight = 0
               ELSE /\ r.store.current_round = store.current_round
                    /\ r.store.highest_timeout_certificate_round
                         = store.highest_timeout_certificate_round
                    /\ r.store.highest_timeout_certificate = store.highest_timeout_certificate
                    /\ DOMAIN r.store.current_timeouts = voters
                    /\ r.store.current_timeouts[author] = timeout

\* C30: a timeout counts toward a timeout certificate only when it is for
\* the current round of the store and from an author with no timeout yet at
\* that round; when the accumulated weight reaches quorum_threshold the
\* store records highest_timeout_certificate_round as that round, keeps
\* those timeouts as the highest timeout certificate and increases
\* current_round by exactly one with no current timeouts left; below the
\* threshold current_round and highest_timeout_certificate_round are
\* unchanged.
TimeoutsMakeCertificate ==
    \A n \in Replicas :
       /\ \A timeout \in TimeoutInputs(n) :
             TimeoutCounted(nodes[n].record_store, contexts[n], timeout)
       /\ WeightOf(nodes[n].record_store.configuration,
                   DOMAIN nodes[n].record_store.current_timeouts)
            < quorum_threshold(nodes[n].record_store.configuration)

\* A replica went to its current round by the timeout certificate of the
\* round before, made of a quorum of timeouts, and rejects the timeouts of
\* that round from now on.
TimeoutCertificateFormed ==
    \E n \in Replicas :
       LET store == nodes[n].record_store
       IN /\ store.highest_timeout_certificate_round >= 1
          /\ store.current_round = store.highest_timeout_certificate_round + 1
          /\ store.current_timeouts = EmptyMap
          /\ WeightOf(store.configuration,
                      {t.value.author : t \in Unwrap(store.highest_timeout_certificate)})
               >= quorum_threshold(store.configuration)
          /\ \E timeout \in TimeoutInputs(n) :
                /\ timeout.value.round = store.highest_timeout_certificate_round
                /\ try_insert_network_record(store, contexts[n], timeout).result
                      = "NotCurrentRound"

(***************************************************************************)
(* C31: committed_states_after.                                            *)
(***************************************************************************)
\* One replica, author 0, of two authors, where the network delivers one
\* round more, so that a chain of QCs at rounds 1, 3, 4 and 5 fits; the
\* byzantine author 1 leads every round and its blocks may skip a round.
InitGaps ==
    InitWith({0}, 2, {1}, [r \in 1..(MaxRound + 2) |-> 1],
             [rounds |-> MaxRound + 1, clock |-> 0, gaps |-> TRUE, faults |-> 0,
              epochs |-> 1, sync |-> FALSE])

SpecGaps == InitGaps /\ [][Next]_vars

\* The QCs of the chain of the highest commit certificate below its two
\* topmost QCs, highest round first; none without a commit certificate.
CommittedChain(store) ==
    IF IsSome(store.highest_commit_certificate_hash)
    THEN LET qcs == BackwardQuorumCertificates(
                        store, Unwrap(store.highest_commit_certificate_hash))
         IN SubSeq(qcs, 3, Len(qcs))
    ELSE <<>>

\* The (round, state) pairs of the committed chain above a round.
CommittedPairsAfter(store, after_round) ==
    {<<qc.value.round, qc.value.state>> :
        qc \in {q \in Range(CommittedChain(store)) : q.value.round > after_round}}

\* The record stores on which a replica may call committed_states_after:
\* those that it holds and those that reach process_commits.
CommittedStatesStores(n) ==
    RecordStores(n) \cup {p.node.record_store : p \in ProcessCommitsCalls(n)}

\* C31: committed_states_after(a) returns exactly the (round, state) pairs
\* of the QCs on the chain walked back from the highest commit certificate,
\* without its two topmost QCs, whose round is greater than a, in strictly
\* increasing order of round, and nothing when the store has no commit
\* certificate.
CommittedStatesAfterIsCommittedChain ==
    \A n \in Replicas :
       \A store \in CommittedStatesStores(n) :
          \A after_round \in 0..(MaxRound + 1) :
             LET commits == committed_states_after(store, after_round)
             IN /\ Range(commits) = CommittedPairsAfter(store, after_round)
                /\ \A i, j \in 1..Len(commits) :
                      i < j => commits[i][1] < commits[j][1]
                /\ ~IsSome(store.highest_commit_certificate_hash) => commits = <<>>

\* No block of round 2 was certified and the QCs of rounds 3, 4 and 5
\* committed round 3: the committed states after round 0 are those of
\* rounds 1 and 3, the committed states after round 1 that of round 3.
CommittedAcrossGap ==
    \E n \in Replicas :
       \E store \in RecordStores(n) :
          LET commits == committed_states_after(store, 0)
          IN /\ store.highest_committed_round = 3
             /\ ancestor_rounds(store, Unwrap(store.highest_commit_certificate_hash))
                   = <<5, 4, 3, 1>>
             /\ Len(commits) = 2
             /\ commits[1][1] = 1
             /\ commits[2][1] = 3
             /\ committed_states_after(store, 1) = <<commits[2]>>

(***************************************************************************)
(* C32: the active round of the pacemaker.                                 *)
(***************************************************************************)
\* update_pacemaker as update_node calls it on <<[node, context], clk>>.
PacemakerUpdated(c) ==
    update_pacemaker(c[1].node.pacemaker, c[1].context.author, c[1].node.epoch_id,
                     c[1].node.record_store, c[1].node.latest_query_all_time, c[2])

\* The epoch or the active round of the call is above that of the pacemaker.
RoundIncreased(c) ==
    LET store == c[1].node.record_store
        before == c[1].node.pacemaker
        round == Max(store.highest_quorum_certificate_round,
                     store.highest_timeout_certificate_round) + 1
    IN \/ c[1].node.epoch_id > before.active_epoch
       \/ (c[1].node.epoch_id = before.active_epoch /\ round > before.active_round)

\* C32: after every call of update_pacemaker for epoch e that returns, the
\* active_epoch of the pacemaker is e and its active_round is
\* max(highest_quorum_certificate_round, highest_timeout_certificate_round)
\* + 1 of the record store, which is the current_round of the store; the
\* start time, the leader and the duration are those of the call when the
\* epoch or the active round increased, and are unchanged otherwise.
ActiveRoundIsCurrentRound ==
    \A n \in Replicas :
       \A c \in UpdateNodeCalls(n) :
          LET store == c[1].node.record_store
              before == c[1].node.pacemaker
              after == PacemakerUpdated(c).pacemaker
          IN ~PacemakerUpdated(c).panic =>
                /\ after.active_epoch = c[1].node.epoch_id
                /\ after.active_round
                      = Max(store.highest_quorum_certificate_round,
                            store.highest_timeout_certificate_round) + 1
                /\ after.active_round = store.current_round
                /\ IF RoundIncreased(c)
                   THEN /\ after.active_round_start_time = c[2]
                        /\ after.active_leader = Some(leader(store, after.active_round))
                        /\ after.active_round_duration
                              = duration(before, store, after.active_round)
                   ELSE after = before

\* A replica in round 3 or later whose next update_pacemaker is for a new
\* epoch, with a record store in round 1.
PacemakerEntersEpoch ==
    \E n \in Replicas :
       \E c \in UpdateNodeCalls(n) :
          /\ ~PacemakerUpdated(c).panic
          /\ c[1].node.epoch_id > c[1].node.pacemaker.active_epoch
          /\ c[1].node.pacemaker.active_round >= 3
          /\ PacemakerUpdated(c).pacemaker.active_round = 1
          /\ PacemakerUpdated(c).pacemaker.active_epoch = c[1].node.epoch_id

(***************************************************************************)
(* C33: one proposal per round.                                            *)
(***************************************************************************)
\* The blocks of an author at a round of a record store.
BlocksOf(store, author, round) ==
    {b \in Range(store.blocks) : b.value.author = author /\ b.value.round = round}

\* The store of the call c of update_node when process_pacemaker_actions
\* has run.
ProposedStore(c) == BeforeVote(c[1], c[2]).node.record_store

\* C33: a replica holds at most one block of its own per epoch and round;
\* update_pacemaker asks for a proposal only when the replica leads the
\* active round and the store has no proposed block at that round, then on
\* top of the highest QC, with a broadcast and an update at once; and while
\* its block of the current round is stored no update_node proposes again.
OneProposalPerRound ==
    \A n \in Replicas :
       /\ \A store \in RecordStores(n) :
             \A round \in 1..(MaxRound + 1) :
                Cardinality(BlocksOf(store, n, round)) <= 1
       /\ \A c \in UpdateNodeCalls(n) :
             LET store == c[1].node.record_store
                 updated == PacemakerUpdated(c)
                 proposes == IsSome(updated.actions.should_propose_block)
             IN ~updated.panic =>
                   /\ proposes =>
                         /\ leader(store, store.current_round) = n
                         /\ store.current_proposed_block = None
                         /\ BlocksOf(store, n, store.current_round) = {}
                         /\ updated.actions.should_propose_block
                               = Some(store.highest_quorum_certificate_hash)
                         /\ updated.actions.should_broadcast
                         /\ updated.actions.next_scheduled_update = c[2]
                         /\ Cardinality(BlocksOf(ProposedStore(c), n,
                                                 store.current_round)) = 1
                   /\ BlocksOf(store, n, store.current_round) # {} =>
                         /\ ~proposes
                         /\ ProposedStore(c).blocks = store.blocks

\* A leader that holds its block of round 2 and is called again in that
\* round: it does not propose.
ProposedOnce ==
    \E n \in Replicas :
       \E c \in UpdateNodeCalls(n) :
          /\ ~PacemakerUpdated(c).panic
          /\ c[1].node.record_store.current_round = 2
          /\ c[1].node.pacemaker.active_round = 2
          /\ BlocksOf(c[1].node.record_store, n, 2) # {}
          /\ PacemakerUpdated(c).actions.should_propose_block = None

(***************************************************************************)
(* C34: the timeout of the active round.                                   *)
(***************************************************************************)
\* The store holds the timeout of an author for a round: among the
\* timeouts of the current round, or in the timeout certificate that the
\* timeout completed.
TimeoutStored(store, author, round) ==
    \/ /\ store.current_round = round
       /\ author \in DOMAIN store.current_timeouts
       /\ store.current_timeouts[author].value.round = round
    \/ /\ store.highest_timeout_certificate_round = round
       /\ IsSome(store.highest_timeout_certificate)
       /\ \E t \in Unwrap(store.highest_timeout_certificate) :
             t.value.author = author /\ t.value.round = round

\* C34: update_pacemaker asks for a timeout of the active round, with a
\* broadcast, exactly when the local author has no timeout at that round
\* and clock >= active_round_start_time + active_round_duration; when it
\* has none and the clock is earlier, next_scheduled_update is no later
\* than that deadline; and the store accepts the timeout that update_node
\* then creates.
TimeoutIffDeadlinePassed ==
    \A n \in Replicas :
       \A c \in UpdateNodeCalls(n) :
          LET store == c[1].node.record_store
              updated == PacemakerUpdated(c)
              active_round == updated.pacemaker.active_round
              deadline == updated.pacemaker.active_round_start_time
                          + updated.pacemaker.active_round_duration
              own == /\ store.current_round = active_round
                     /\ n \in DOMAIN store.current_timeouts
              asked == IsSome(updated.actions.should_create_timeout)
          IN ~updated.panic =>
                /\ asked <=> (~own /\ c[2] >= deadline)
                /\ asked =>
                      /\ updated.actions.should_create_timeout = Some(active_round)
                      /\ updated.actions.should_broadcast
                      /\ ~TimeoutStored(store, n, active_round)
                      /\ TimeoutStored(
                            PacemakerTimeout([c[1].node EXCEPT
                                                !.pacemaker = updated.pacemaker],
                                             c[1].context, updated.actions)
                               .node.record_store,
                            n, active_round)
                /\ (~own /\ c[2] < deadline) =>
                      updated.actions.next_scheduled_update <= deadline

\* A replica whose timeout of round 1, created at the deadline, completed
\* the timeout certificate, and that schedules an update before the
\* deadline of round 2.
TimeoutCreatedAtDeadline ==
    \E n \in Replicas :
       /\ TimeoutStored(nodes[n].record_store, n, 1)
       /\ nodes[n].record_store.current_round = 2
       /\ clock[n] >= 1
       /\ \E c \in UpdateNodeCalls(n) :
             /\ ~PacemakerUpdated(c).panic
             /\ PacemakerUpdated(c).actions.should_create_timeout = None
             /\ PacemakerUpdated(c).pacemaker.active_round = 2
             /\ c[2] < PacemakerUpdated(c).actions.next_scheduled_update
             /\ PacemakerUpdated(c).actions.next_scheduled_update
                   <= PacemakerUpdated(c).pacemaker.active_round_start_time
                      + PacemakerUpdated(c).pacemaker.active_round_duration

(***************************************************************************)
(* C35: the proposed block of the current round.                           *)
(***************************************************************************)
\* The current proposed block of a store, if any, is a stored block of the
\* current round whose author is the leader of that round.
ProposedBlockOfLeader(store) ==
    IsSome(store.current_proposed_block) =>
       /\ Unwrap(store.current_proposed_block) \in DOMAIN store.blocks
       /\ LET block == store.blocks[Unwrap(store.current_proposed_block)]
          IN /\ block.value.round = store.current_round
             /\ block.value.author = leader(store, store.current_round)

\* The blocks that replica n may receive: those of the byzantine authors,
\* its own, and the copies of its proposed block.
CompetingBlocksFor(n) == BlocksFor(n) \cup CopiedBlocks(nodes[n].record_store)

\* C35: in every record store, current_proposed_block = Some(h) implies
\* that block h is stored, of the current round and of the leader of the
\* current round; a block that is inserted becomes the proposed block only
\* when it is of the current round and of its leader; and the assertions of
\* proposed_block hold wherever update_node calls it.
ProposedBlockIsOfLeader ==
    \A n \in Replicas :
       /\ \A store \in RecordStores(n) : ProposedBlockOfLeader(store)
       /\ \A b \in CompetingBlocksFor(n) :
             LET store == nodes[n].record_store
                 r == try_insert_network_record(store, contexts[n], b)
             IN /\ ProposedBlockOfLeader(r.store)
                /\ r.store.current_proposed_block # store.current_proposed_block =>
                      /\ r.result = "Ok"
                      /\ r.store.current_proposed_block = Some(hash(b.value))
                      /\ b.value.round = store.current_round
                      /\ b.value.author = leader(store, store.current_round)
       /\ \A c \in UpdateNodeCalls(n) :
             /\ ~proposed_block_panics(c[1].node.record_store,
                                       PacemakerUpdated(c).pacemaker)
             /\ ~PacemakerUpdated(c).panic =>
                   ~proposed_block_panics(BeforeVote(c[1], c[2]).node.record_store,
                                          BeforeVote(c[1], c[2]).node.pacemaker)

\* A store that holds two blocks of its current round, the proposed block
\* of the leader and a block of another author.
CompetingBlockNotProposed ==
    \E n \in Replicas :
       LET store == nodes[n].record_store
       IN /\ IsSome(store.current_proposed_block)
          /\ \E b \in Range(store.blocks) :
                /\ b.value.round = store.current_round
                /\ b.value.author # leader(store, store.current_round)
                /\ hash(b.value) # Unwrap(store.current_proposed_block)

(***************************************************************************)
(* C36: handle_request. Replicas that start in the epoch of their          *)
(* committee and answer the requests of any peer.                          *)
(***************************************************************************)
MaxCommitteeEpoch == 2

\* The DataSyncRequests that a peer may send to replica n: of any epoch,
\* with no known round or with the known rounds of the replica.
RequestsFor(n) ==
    {[current_epoch |-> e, known_quorum_certificates |-> k] :
        e \in 0..(MaxCommitteeEpoch + 1),
        k \in {{}, known_quorum_certificate_rounds(nodes[n].record_store)}}

\* CoreDriver::run, DataSyncRequest: handle_request; its response is
\* transmitted to the sender.
DataSyncRequestEvent(n) ==
    /\ Active(n)
    /\ \E request \in RequestsFor(n) :
          LET h == handle_request(nodes[n], request)
          IN IF h.panic
             THEN /\ crashed' = [crashed EXCEPT ![n] = TRUE]
                  /\ call' = [function |-> "handle_request", input |-> request,
                              output |-> None]
             ELSE /\ call' = [function |-> "handle_request", input |-> request,
                              output |-> Some(h.response)]
                  /\ UNCHANGED crashed
    /\ UNCHANGED <<nodes, contexts, clock, leaders, delivered, votes_cast, byzantine,
                   network, simulator, driver>>

NextCommittee ==
    \/ \E n \in Replicas : UpdateTimerEvent(n)
    \/ \E n \in Replicas : DataSyncNotifyEvent(n)
    \/ \E n \in Replicas : DataSyncResponseEvent(n)
    \/ \E n \in Replicas : DataSyncRequestEvent(n)

\* Node::new: one replica, author 0, of two authors, made by
\* make_initial_state in the epoch of its committee; author 1 is
\* byzantine and leads round 1.
InitCommittee ==
    \E epoch \in 0..MaxCommitteeEpoch :
       /\ byzantine = {1}
       /\ network = [rounds |-> 1, clock |-> 0, gaps |-> FALSE, faults |-> 0,
                     epochs |-> MaxCommitteeEpoch + 1, sync |-> FALSE]
       /\ simulator = SimulatorNew({0})
       /\ call = None
       /\ driver = NoDriver
       /\ contexts = [n \in {0} |-> CommitteeContextNew(n, 2, epoch)]
       /\ nodes = [n \in {0} |-> make_initial_state(CommitteeContextNew(n, 2, epoch),
                                                    NodeConfig, 0)]
       /\ clock = [n \in {0} |-> 0]
       /\ crashed = [n \in {0} |-> FALSE]
       /\ leaders = LeaderTable({0, 1}, 0)
       /\ delivered = [n \in {0} |-> <<>>]
       /\ votes_cast = [n \in {0} |-> {}]

SpecCommittee == InitCommittee /\ [][NextCommittee]_vars

\* The epochs of the record stores that a node holds from the epoch of a
\* request up to its own.
EpochsFrom(node, request) ==
    {e \in request.current_epoch..node.epoch_id : IsSome(record_store_at(node, e))}

\* handle_request of a node answers a request without a panic, every later
\* epoch up to that of the node having a record store, with the batches of
\* the epochs in increasing order: unknown_records of the known rounds for
\* the epoch of the request, of no round for the epochs after it.
RequestAnswered(node, request) ==
    LET h == handle_request(node, request)
        records == h.response.records
    IN /\ ~h.panic
       /\ \A e \in (request.current_epoch + 1)..node.epoch_id :
             IsSome(record_store_at(node, e))
       /\ h.response.current_epoch = node.epoch_id
       /\ \A i, j \in 1..Len(records) : i < j => records[i][1] < records[j][1]
       /\ {records[i][1] : i \in 1..Len(records)} = EpochsFrom(node, request)
       /\ \A i \in 1..Len(records) :
             records[i][2]
                = unknown_records(Unwrap(record_store_at(node, records[i][1])),
                                  IF records[i][1] = request.current_epoch
                                  THEN request.known_quorum_certificates ELSE {})

\* C36: handle_request answers with batches in strictly increasing order of
\* epoch, first that of the epoch of the requester with unknown_records of
\* the known rounds, then one for every epoch e with requester epoch < e <=
\* responder epoch with unknown_records of the empty set; it never fails:
\* in every node state a record store exists for each such epoch e,
\* whatever epoch the EpochReader of the context returned.
RequestsAreAnswered ==
    \A n \in Replicas : \A request \in RequestsFor(n) :
       RequestAnswered(nodes[n], request)

\* A replica that panicked in handle_request.
RequestPanicked ==
    \E n \in Replicas :
       /\ crashed[n]
       /\ call # None
       /\ call.function = "handle_request"
       /\ call.output = None
       /\ handle_request(nodes[n], call.input).panic

(***************************************************************************)
(* unknown_records and the store of the receiver.                          *)
(***************************************************************************)
\* Blocks of the byzantine authors for the current round of a store that
\* extend any QC of the store, or its initial hash: forks of the chain.
ForkingBlocks(store, index) ==
    IF Cardinality(DOMAIN store.blocks) >= MaxBlocks
       \/ store.current_round > network.rounds THEN {}
    ELSE {Signed(a, [kind |-> "Block", command |-> [proposer |-> a, index |-> index],
                     time |-> 0, previous_quorum_certificate_hash |-> p,
                     round |-> store.current_round, author |-> a]) :
             a \in byzantine,
             p \in {store.initial_hash} \cup DOMAIN store.quorum_certificates}

\* Simulator::loop_until, DataSyncNotifyEvent with the proposal of a
\* byzantine leader that forks the chain: handle_notification, then
\* update_node.
ForkNotifyEvent(n) ==
    /\ Active(n)
    /\ UNCHANGED <<simulator, driver>>
    /\ \E block \in ForkingBlocks(nodes[n].record_store, n) :
          \E r \in UpdateNodeResults(
                       handle_notification(
                           nodes[n], contexts[n],
                           [EmptyNotification(nodes[n].epoch_id)
                               EXCEPT !.proposed_block = Some(block)]),
                       clock[n]) :
             Becomes(n, r, clock[n], r.votes)

NextForks ==
    \/ \E n \in Replicas : UpdateTimerEvent(n)
    \/ \E n \in Replicas : DataSyncNotifyEvent(n)
    \/ \E n \in Replicas : DataSyncResponseEvent(n)
    \/ \E n \in Replicas : ForkNotifyEvent(n)

\* One replica of two authors; the byzantine author leads every round.
InitForks ==
    InitWith({0}, 2, {1}, [r \in 1..(MaxRound + 1) |-> 1],
             [rounds |-> 3, clock |-> 0, gaps |-> FALSE, faults |-> 0,
              epochs |-> 1, sync |-> FALSE])

SpecForks == InitForks /\ [][NextForks]_vars

\* The QCs of the chains of the highest QC and of the highest commit
\* certificate of a store above the first QC of a known round.
UnknownQuorumCertificates(store, known) ==
    LET cc_hash == IF IsSome(store.highest_commit_certificate_hash)
                   THEN Unwrap(store.highest_commit_certificate_hash)
                   ELSE store.initial_hash
        Above(c) == {c[i] : i \in {j \in 1..Len(c) :
                                      \A m \in 1..j : c[m].value.round \notin known}}
    IN Above(BackwardQuorumCertificates(store, store.highest_quorum_certificate_hash))
       \cup Above(BackwardQuorumCertificates(store, cc_hash))

\* unknown_records lists each of these QCs once after its block, by
\* increasing round (two QCs of one round, one of each chain, follow one
\* another), then the timeouts of the highest TC, then those of
\* the current round, then the proposed block, and no vote.
RecordsListed(store, known) ==
    LET records == unknown_records(store, known)
        qcs == UnknownQuorumCertificates(store, known)
        m == Cardinality(qcs)
        tc == IF IsSome(store.highest_timeout_certificate)
              THEN Unwrap(store.highest_timeout_certificate) ELSE {}
        current == Range(store.current_timeouts)
        t == Cardinality(tc) + Cardinality(current)
    IN /\ Len(records) = 2 * m + t + (IF IsSome(store.current_proposed_block) THEN 1 ELSE 0)
       /\ {records[2 * i] : i \in 1..m} = qcs
       /\ \A i \in 1..m :
             records[2 * i - 1] = store.blocks[records[2 * i].value.certified_block_hash]
       /\ \A i \in 1..(m - 1) : records[2 * i].value.round <= records[2 * i + 2].value.round
       /\ {records[i] : i \in (2 * m + 1)..(2 * m + Cardinality(tc))} = tc
       /\ {records[i] : i \in (2 * m + Cardinality(tc) + 1)..(2 * m + t)} = current
       /\ IsSome(store.current_proposed_block)
             => records[Len(records)] = store.blocks[Unwrap(store.current_proposed_block)]
       /\ \A i \in 1..Len(records) : records[i].value.kind # "Vote"

\* try_insert_network_record of the records of a sequence in order: the
\* store that results, and the result of each record.
RECURSIVE StoreAfter(_, _, _)
StoreAfter(store, context, records) ==
    IF records = <<>> THEN store
    ELSE LET r == try_insert_network_record(store, context, Head(records))
         IN StoreAfter(r.store, r.context, Tail(records))

RECURSIVE InsertionResults(_, _, _)
InsertionResults(store, context, records) ==
    IF records = <<>> THEN <<>>
    ELSE LET r == try_insert_network_record(store, context, Head(records))
         IN <<r.result>> \o InsertionResults(r.store, r.context, Tail(records))

\* The stores of the receivers that lag behind a store: the store of the
\* start of its epoch with the k lowest QCs of its chains and their blocks.
Receivers(store, context) ==
    LET all == unknown_records(store, {})
        m == Cardinality(UnknownQuorumCertificates(store, {}))
        fresh == RecordStoreStateNew(store.initial_hash, store.initial_state,
                                     store.epoch_id, store.configuration)
    IN {StoreAfter(fresh, context, SubSeq(all, 1, 2 * k)) : k \in 0..m}

\* No block and no QC of the records is rejected by the receiver for a
\* missing parent or a missing block.
NothingMissing(receiver, context, records) ==
    LET results == InsertionResults(receiver, context, records)
    IN \A i \in 1..Len(records) :
          records[i].value.kind \in {"Block", "QuorumCertificate"}
             => results[i] \notin {"UnknownPreviousQc", "UnknownBlock"}

\* C37: unknown_records(known) lists, for every QC of the chains of the
\* highest QC and of the highest commit certificate above the first QC of a
\* known round, the certified block then the QC, each QC once and by
\* increasing round, then the timeouts (highest TC first), then the
\* proposed block, and never a vote; and a store that holds the QCs of the
\* known rounds, inserting the list front to back, rejects no block and no
\* QC for a missing parent or a missing block.
UnknownRecordsInsertInOrder ==
    \A n \in Replicas :
       \A store \in RecordStores(n) :
          \A receiver \in Receivers(store, contexts[n]) :
             LET known == known_quorum_certificate_rounds(receiver)
             IN /\ RecordsListed(store, known)
                /\ NothingMissing(receiver, contexts[n], unknown_records(store, known))

\* A replica holds the proposal of a byzantine leader that extends a QC
\* outside the chain of its highest QC, and a receiver at the start of the
\* epoch rejects it for its unknown previous QC.
ForkedProposalRejected ==
    \E n \in Replicas :
       LET store == nodes[n].record_store
           records == unknown_records(store, {})
           fresh == RecordStoreStateNew(store.initial_hash, store.initial_state,
                                        store.epoch_id, store.configuration)
       IN /\ IsSome(store.current_proposed_block)
          /\ \A h \in DOMAIN store.quorum_certificates :
                Cardinality({v[1] : v \in Range(store.quorum_certificates[h].value.votes)})
                   = Len(store.quorum_certificates[h].value.votes)
          /\ InsertionResults(fresh, contexts[n], records)[Len(records)]
                = "UnknownPreviousQc"

(***************************************************************************)
(* The commit tracker and the query-all action.                            *)
(***************************************************************************)
\* The calls of update_tracker that replica n can make next in update_node,
\* as <<node, clk>>: after process_commits.
UpdateTrackerCalls(n) ==
    {<<process_commits(p.node, p.context).node, clk>> :
        p \in {q \in ProcessCommitsCalls(n) : ~process_commits(q.node, q.context).panic},
        clk \in clock[n]..network.clock}

\* update_tracker of a call has seen a higher committed round or a new
\* epoch.
CommitObserved(node) ==
    \/ node.epoch_id > node.tracker.epoch_id
    \/ node.record_store.highest_committed_round > node.tracker.highest_committed_round

\* The deadline of the tracker of a call: the target commit interval after
\* the latest commit, which is now when a commit was observed, or after the
\* latest query-all action.
TrackerDeadline(node, clk) ==
    Max(IF CommitObserved(node) THEN clk ELSE node.tracker.latest_commit_time,
        node.latest_query_all_time)
    + node.tracker.target_commit_interval

\* C38: update_tracker returns should_query_all = true if and only if clock
\* >= max(latest_commit_time, latest_query_all_time) + target_commit_interval,
\* where latest_commit_time was first set to clock if a higher committed
\* round or a new epoch was observed; the deadline it returns is clock +
\* target_commit_interval in that case and max(latest_commit_time,
\* latest_query_all_time) + target_commit_interval otherwise; and whenever
\* update_node returns should_query_all it has set latest_query_all_time =
\* clock.
QueryAllIffDeadlinePassed ==
    \A n \in Replicas :
       /\ \A c \in UpdateTrackerCalls(n) :
             LET node == c[1]
                 clk == c[2]
                 tr == update_tracker(node.tracker, node.latest_query_all_time, clk,
                                      node.epoch_id, node.record_store)
             IN /\ tr.tracker.latest_commit_time
                      = IF CommitObserved(node) THEN clk
                        ELSE node.tracker.latest_commit_time
                /\ tr.should_query_all <=> clk >= TrackerDeadline(node, clk)
                /\ tr.next_scheduled_update
                      = IF clk >= TrackerDeadline(node, clk)
                        THEN clk + node.tracker.target_commit_interval
                        ELSE TrackerDeadline(node, clk)
       /\ \A c \in UpdateNodeCalls(n) :
             \A r \in UpdateNodeResults(c[1], c[2]) :
                (~r.panic /\ r.actions.should_query_all)
                   => r.node.latest_query_all_time = c[2]

\* A replica that has observed a commit asked to query all at time 1, the
\* target commit interval after its start, and recorded that time; at that
\* time its tracker waits for the next deadline without asking again.
QueriedAllAtDeadline ==
    \E n \in Replicas :
       /\ nodes[n].tracker.highest_committed_round > 0
       /\ clock[n] = 1
       /\ nodes[n].latest_query_all_time = 1
       /\ \E c \in UpdateTrackerCalls(n) :
             /\ c[2] = 1
             /\ ~update_tracker(c[1].tracker, c[1].latest_query_all_time, 1,
                                c[1].epoch_id, c[1].record_store).should_query_all

(***************************************************************************)
(* The voters of a quorum certificate.                                     *)
(***************************************************************************)
\* The weight of the distinct authors of the votes of a QC.
RECURSIVE AuthorsWeight(_, _)
AuthorsWeight(config, authors) ==
    IF authors = {} THEN 0
    ELSE LET a == CHOOSE x \in authors : TRUE
         IN weight(config, a) + AuthorsWeight(config, authors \ {a})

Voters(qc) == {v[1] : v \in Range(qc.value.votes)}

\* The votes of a QC repeat a pair of an author and a signature.
RepeatsVote(qc) == Cardinality(Range(qc.value.votes)) < Len(qc.value.votes)

\* C39: every QC that a record store accepted is backed by a quorum of
\* distinct voters: the voting rights of the distinct authors of its votes
\* reach the quorum threshold; and verify_network_record rejects a QC whose
\* votes repeat a pair of an author and a signature.
QuorumsAreOfDistinctVoters ==
    \A n \in Replicas :
       /\ \A store \in RecordStores(n) :
             \A qc \in Range(store.quorum_certificates) :
                AuthorsWeight(store.configuration, Voters(qc))
                   >= quorum_threshold(store.configuration)
       /\ \A qc \in QuorumCertificatesFor(n) :
             RepeatsVote(qc) => verify_network_record(nodes[n].record_store, qc) # "Ok"

(***************************************************************************)
(* The commit certificate and the assertion of duration.                   *)
(***************************************************************************)
\* A store with a committed round holds its highest commit certificate, two
\* rounds above the committed round and not above the highest QC.
CommitCertificateTwoAbove(store) ==
    store.highest_committed_round > 0
       => /\ IsSome(store.highest_commit_certificate_hash)
          /\ Unwrap(store.highest_commit_certificate_hash)
                \in DOMAIN store.quorum_certificates
          /\ store.quorum_certificates[Unwrap(store.highest_commit_certificate_hash)]
                .value.round = store.highest_committed_round + 2
          /\ store.highest_committed_round + 2 <= store.highest_quorum_certificate_round

\* C40: in every node state with highest_committed_round > 0, the highest
\* commit certificate exists and its round is highest_committed_round + 2,
\* at most highest_quorum_certificate_round; so the active round that the
\* pacemaker computes is above highest_committed_round + 2 and the
\* assertion of duration never fails, also right after an epoch change.
CommitCertificateBelowActiveRound ==
    \A n \in Replicas :
       /\ \A store \in RecordStores(n) : CommitCertificateTwoAbove(store)
       /\ \A c \in UpdateNodeCalls(n) :
             LET node == c[1].node
                 store == node.record_store
                 pm == update_pacemaker(node.pacemaker, c[1].context.author,
                                        node.epoch_id, store,
                                        node.latest_query_all_time, c[2])
                 active_round == Max(store.highest_quorum_certificate_round,
                                     store.highest_timeout_certificate_round) + 1
             IN /\ CommitCertificateTwoAbove(store)
                /\ store.highest_committed_round > 0
                      => active_round > store.highest_committed_round + 2
                /\ ~duration_panics(store, active_round)
                /\ pm.pacemaker.active_epoch = node.epoch_id
                /\ pm.pacemaker.active_round = active_round

\* A replica committed a round in an epoch, holds the commit certificate
\* two rounds above it, changed epoch, and its pacemaker entered round 1 of
\* the new epoch, where no round is committed.
CommitCertificateThenNewEpoch ==
    \E n \in Replicas :
       /\ \E store \in Range(nodes[n].past_record_stores) :
             /\ store.highest_committed_round > 0
             /\ IsSome(store.highest_commit_certificate_hash)
             /\ store.quorum_certificates[Unwrap(store.highest_commit_certificate_hash)]
                   .value.round = store.highest_committed_round + 2
       /\ nodes[n].record_store.highest_committed_round = 0
       /\ nodes[n].pacemaker.active_epoch = nodes[n].epoch_id
       /\ nodes[n].pacemaker.active_round = 1

============================================================================
